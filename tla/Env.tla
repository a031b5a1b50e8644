-------------------------------- MODULE Env --------------------------------
(***************************************************************************)
(* The environment library (libs/env/env.c): variables and flags of a      *)
(* context as arrays with iterators, their stored form, and the operations *)
(* on one or two contexts.                                                 *)
(*                                                                         *)
(* The text of a value is a list of entries: one entry without key for a   *)
(* plain value, one per flag for the variable ".flags".  A stored          *)
(* environment is the list of variables that was written, or bad when its  *)
(* CRC does not match.                                                     *)
(***************************************************************************)
EXTENDS Integers, FiniteSets, FiniteSetsExt, Sequences, SequencesExt

CONSTANTS Keys,       \* names of variables callers use, in the order of strcmp
          Vals,       \* values callers set
          Width,      \* length of "name=value" with its '\0', by value
          Attr,       \* attributes of flags
          Region,     \* size of the storage
          Hdr,        \* sizeof(env_io_t)
          Uses,       \* what is done: "iterate" over one context, or "store" two
          Contents,   \* what may be in storage at first
          MaxOps,     \* bound on the operations of a use of storage
          MaxFaults   \* bound on failing allocations and storage operations

Flags == ".flags"
None == "none"
Name == {Keys[i] : i \in DOMAIN Keys}
Ctx == {"src", "dst"}
Kind == {"var", "flag"}
Data == Region - Hdr

Plain(v) == <<[key |-> "", value |-> v]>>
Empty == [ekv |-> <<>>, eit |-> 0, fkv |-> <<>>, fit |-> 0]
Bad == [ok |-> FALSE, list |-> <<>>]

ASSUME EnvLibAssumption ==
  /\ Flags \notin Name /\ None \notin Vals \cup Attr /\ IsInjective(Keys)
  /\ Region \in Nat /\ Hdr \in Nat /\ Hdr < Region /\ MaxOps \in Nat /\ MaxFaults \in Nat
  /\ \A v \in Vals : Width[v] \in Nat \ {0}
  /\ Uses \subseteq {"iterate", "store"}

VARIABLES
  use,       \* what the callers do in this behaviour
  ctx,       \* the contexts: arrays ekv and fkv, iterators eit.next and fit.next
  storage,   \* what is stored for each context
  want,      \* history: value and attribute of each name after the calls so far
  it,        \* history: the iteration over the source context
  torn,      \* history: a flag was changed and ".flags" could not be
  overrun,   \* history: the end mark was written behind the data
  ops, faults

vars == <<use, ctx, storage, want, it, torn, overrun, ops, faults>>
-----------------------------------------------------------------------------
(***************************************************************************)
(* Arrays.                                                                 *)
(***************************************************************************)
Find(kvs, k) == SelectInSeq(kvs, LAMBDA r : r.key = k)

\* env_insert_item
Insert(kvs, k, v) ==
  IF Find(kvs, k) = 0 THEN Append(kvs, [key |-> k, value |-> v])
  ELSE [kvs EXCEPT ![Find(kvs, k)].value = v]

\* Mutant: the last item takes the place of the deleted one.
DeleteSwap(kvs, k) ==
  LET i == Find(kvs, k) n == Len(kvs) IN
  IF i = 0 THEN kvs ELSE SubSeq([kvs EXCEPT ![i] = kvs[n]], 1, n - 1)

\* Mutant: the items behind the deleted one are copied one short.
DeleteShort(kvs, k) ==
  LET i == Find(kvs, k) IN
  IF i = 0 THEN kvs ELSE SubSeq(kvs, 1, i - 1) \o SubSeq(kvs, i + 2, Len(kvs))

\* env_delete_item
Delete(kvs, k) == IF Find(kvs, k) = 0 THEN kvs ELSE RemoveAt(kvs, Find(kvs, k))

Rank(k) == IF k = Flags THEN 0 ELSE CHOOSE i \in DOMAIN Keys : Keys[i] = k

\* qsort with env_cmp_items
Sorted(kvs) == SortSeq(kvs, LAMBDA r, s : Rank(r.key) < Rank(s.key))

\* Where an iterator stands after the item of k is deleted.  When there is no such
\* item, idx is not initialized: below says whether its value happens to be less
\* than next.  -1 is any place before the array.
Stepped(next, kvs, k, below) ==
  LET i == Find(kvs, k) IN
  IF (IF i = 0 THEN below ELSE next > i - 1) THEN Max({next - 1, -1}) ELSE next

\* env_set with a value and without
Set(x, k, text) == [x EXCEPT !.ekv = Insert(@, k, text)]
Unset(x, k, below) == [x EXCEPT !.ekv = Delete(@, k), !.eit = Stepped(@, x.ekv, k, below)]

\* env_set_flag up to the change of ".flags"
FlagItem(x, k, a, below) ==
  LET y == IF a = None THEN [x EXCEPT !.fkv = Delete(@, k), !.fit = Stepped(@, x.fkv, k, below)]
           ELSE [x EXCEPT !.fkv = Insert(@, k, a)] IN
  [y EXCEPT !.fkv = Sorted(@)]

\* Mutant: ".flags" stays when the last flag is deleted.
FlagVariableStays(x, below) == IF x.fkv = <<>> THEN x ELSE Set(x, Flags, x.fkv)

FlagVariable(x, below) ==
  IF x.fkv = <<>> THEN Unset(x, Flags, below) ELSE Set(x, Flags, x.fkv)

\* With an attribute, which leaves idx unused.
AddFlag(x, k, a) == FlagVariable(FlagItem(x, k, a, FALSE), FALSE)
-----------------------------------------------------------------------------
(***************************************************************************)
(* Storage.                                                                *)
(***************************************************************************)
Size(r) == IF r.key = Flags THEN 1 + Len(r.value) ELSE Width[r.value[1].value]

Used(list) == FoldLeft(LAMBDA n, r : n + Size(r), 0, list)

\* Mutant: room for the header is left a second time.
FittingTight(list) ==
  LET fits == {n \in 0..Len(list) : \A i \in 1..n : Used(SubSeq(list, 1, i)) < Data - Hdr} IN
  SubSeq(list, 1, Max(fits))

\* env_prepare_io_ctx: the variables in order, up to the first without room.
Fitting(list) ==
  LET fits == {n \in 0..Len(list) : \A i \in 1..n : Used(SubSeq(list, 1, i)) < Region} IN
  SubSeq(list, 1, Max(fits))

Prepared(x) == Fitting(Sorted(x.ekv))

SetAll(x, list) == FoldLeft(LAMBDA y, r : Set(y, r.key, r.value), x, list)

\* env_import: the variables, then the flags that ".flags" lists.
Imported(x, list) ==
  LET y == SetAll(x, list)
      i == Find(y.ekv, Flags) IN
  IF i = 0 THEN y
  ELSE FoldLeft(LAMBDA z, r : AddFlag(z, r.key, r.value), y, y.ekv[i].value)

\* env_copy: variables and flags of s are set in d.
Merged(d, s) ==
  FoldLeft(LAMBDA z, r : AddFlag(z, r.key, r.value), SetAll(d, s.ekv), s.fkv)
-----------------------------------------------------------------------------
(***************************************************************************)
(* What the calls ask for, and the iteration, as a caller sees them.       *)
(***************************************************************************)
Nothing == [var |-> [k \in Name |-> None], flag |-> [k \in Name |-> None]]

\* What a list of variables, or the arrays of a context, say of each name.
Told(list, k) == IF Find(list, k) = 0 THEN None ELSE list[Find(list, k)].value[1].value
Flagged(fkv, k) == IF Find(fkv, k) = 0 THEN None ELSE fkv[Find(fkv, k)].value
Shown(x) == [var |-> [k \in Name |-> Told(x.ekv, k)], flag |-> [k \in Name |-> Flagged(x.fkv, k)]]
Listed(list) ==
  [var |-> [k \in Name |-> Told(list, k)],
   flag |-> [k \in Name |-> IF Find(list, Flags) = 0 THEN None
                            ELSE Flagged(list[Find(list, Flags)].value, k)]]
Over(new, old) ==
  [f \in Kind |-> [k \in Name |-> IF new[f][k] = None THEN old[f][k] ELSE new[f][k]]]

Array(x, kind) == IF kind = "var" THEN x.ekv ELSE x.fkv
Present(x, kind) == {r.key : r \in Range(Array(x, kind))} \ {Flags}
NoIteration == [kind |-> "none", visited |-> {}, since |-> {}, quiet |-> TRUE, again |-> FALSE, over |-> FALSE]

\* A name that is deleted is no longer one of those to visit.
Tracked(x, calm) ==
  IF it.kind = "none" THEN it
  ELSE [it EXCEPT !.since = @ \cap Present(x, it.kind), !.visited = @ \cap Present(x, it.kind),
                  !.quiet = @ /\ calm]

\* A call on context c that leaves it as x.  calm: the call keeps the order of the
\* array that is iterated over and deletes nothing but what is there.
Calls(c, x, asked, calm) ==
  /\ ctx' = [ctx EXCEPT ![c] = x]
  /\ want' = [want EXCEPT ![c] = asked]
  /\ it' = IF c = "src" THEN Tracked(x, calm) ELSE it
  /\ UNCHANGED <<use, overrun>>

\* After an overrun the heap is not what it was, and nothing more is said.
CountStore == use = "store" /\ ~overrun /\ ops < MaxOps /\ ops' = ops + 1
Count(c) == CountStore \/ (use = "iterate" /\ c = "src" /\ UNCHANGED ops)
Fine == UNCHANGED faults
Fails == faults < MaxFaults /\ faults' = faults + 1

\* Outcomes of the comparison with an uninitialized idx when a is set or deleted;
\* without an iteration nobody can tell them apart.
Garbage(a) == IF use = "iterate" /\ a = None THEN BOOLEAN ELSE {FALSE}
-----------------------------------------------------------------------------
(***************************************************************************)
(* Variables and flags.                                                    *)
(***************************************************************************)
EnvSet(c, k, v) ==
  /\ Count(c) /\ Fine
  /\ Calls(c, Set(ctx[c], k, Plain(v)), [want[c] EXCEPT !.var[k] = v], TRUE)
  /\ UNCHANGED <<storage, torn>>

EnvUnset(c, k) ==
  /\ Count(c) /\ Fine
  /\ \E below \in Garbage(None) :
       Calls(c, Unset(ctx[c], k, below), [want[c] EXCEPT !.var[k] = None],
             it.kind = "flag" \/ Find(ctx[c].ekv, k) # 0)
  /\ UNCHANGED <<storage, torn>>

\* Deleting a flag that is not there, and the last flag's ".flags" when that is
\* not there, may move an iterator.
EnvSetFlag(c, k, a) ==
  /\ Count(c) /\ Fine
  /\ \E b1, b2 \in Garbage(a) :
       LET x == ctx[c] y == FlagItem(x, k, a, b1) IN
       Calls(c, FlagVariable(y, b2), [want[c] EXCEPT !.flag[k] = a],
             IF it.kind = "flag" THEN Find(x.fkv, k) # 0
             ELSE y.fkv # <<>> \/ Find(x.ekv, Flags) # 0)
  /\ UNCHANGED <<storage, torn>>

\* The flag is changed, and there is no memory for the new value of ".flags".
EnvSetFlagTorn(c, k, a) ==
  /\ Count(c) /\ Fails
  /\ \E below \in Garbage(a) :
       LET y == FlagItem(ctx[c], k, a, below) IN
       /\ y.fkv # <<>>
       /\ Calls(c, y, [want[c] EXCEPT !.flag[k] = a], it.kind = "var")
  /\ torn' = TRUE /\ UNCHANGED storage

Iterator(x, kind) == IF kind = "var" THEN x.eit ELSE x.fit

\* env_get_key_next, env_get_flag_key_next: names with a leading '.' are passed over.
Following(x, kind) ==
  LET kvs == Array(x, kind)
      next == Iterator(x, kind)
      ahead == {i \in (next + 1)..Len(kvs) : kvs[i].key # Flags} IN
  IF ahead # {} THEN [key |-> kvs[Min(ahead)].key, next |-> Min(ahead)]
  ELSE [key |-> None, next |-> IF kind = "var" THEN Max({next, Len(kvs)}) ELSE next]

Moved(x, kind, next) == IF kind = "var" THEN [x EXCEPT !.eit = next] ELSE [x EXCEPT !.fit = next]

Visit(x, kind, seen) ==
  LET f == Following(x, kind) IN
  /\ ctx' = [ctx EXCEPT !["src"] = Moved(x, kind, f.next)]
  /\ it' = IF f.key = None THEN [seen EXCEPT !.over = TRUE]
           ELSE [seen EXCEPT !.visited = @ \cup {f.key}, !.again = @ \/ f.key \in seen.visited]
  /\ UNCHANGED <<use, storage, want, torn, overrun, ops, faults>>

KeyFirst(kind) ==
  /\ use = "iterate"
  /\ LET x == Moved(ctx["src"], kind, 0) IN
     Visit(x, kind, [NoIteration EXCEPT !.kind = kind, !.since = Present(x, kind)])

\* Before the array there is nothing to read, and nothing is said of the call.
KeyNext ==
  /\ use = "iterate" /\ it.kind # "none" /\ ~it.over /\ Iterator(ctx["src"], it.kind) >= 0
  /\ Visit(ctx["src"], it.kind, it)
-----------------------------------------------------------------------------
(***************************************************************************)
(* Contexts and their storage.                                             *)
(***************************************************************************)
Stored(list) == [ok |-> TRUE, list |-> list]
Overruns(list) == overrun' = (Used(list) >= Data)

\* What env_io_clear and env_io_write leave when one of them fails.
Damaged(c) == \E s \in {storage[c], Bad} : storage' = [storage EXCEPT ![c] = s]

EnvExport(c) ==
  /\ CountStore
  /\ LET list == Prepared(ctx[c]) IN
     \/ Fine /\ Overruns(list) /\ storage' = [storage EXCEPT ![c] = Stored(list)]
     \/ Fails /\ Overruns(list) /\ Damaged(c)
  /\ ctx' = [ctx EXCEPT ![c].ekv = Sorted(@)]
  /\ UNCHANGED <<use, want, it, torn>>

\* Nothing is set when the CRC does not match.
EnvImport(c) ==
  /\ CountStore /\ Fine
  /\ \/ /\ storage[c].ok
        /\ Calls(c, Imported(ctx[c], storage[c].list), Over(Listed(storage[c].list), want[c]), FALSE)
     \/ ~storage[c].ok /\ Calls(c, ctx[c], want[c], TRUE)
  /\ UNCHANGED <<storage, torn>>

\* Context c is left with the variables of a part of list only, and without the
\* flags of ".flags" if that is in the part.
SetPart(c, x, list) ==
  \E n \in 0..Len(list) :
    LET part == SubSeq(list, 1, n) IN
    /\ Calls(c, SetAll(x, part), [want[c] EXCEPT !.var = Over(Listed(part), want[c]).var], FALSE)
    /\ torn' = (torn \/ Find(part, Flags) # 0)

\* The memory ends during the import, at the latest for the copy of ".flags".  A
\* failure among the flags leaves the same variables, and torn, too.
EnvImportFails(c) ==
  /\ CountStore /\ Fails /\ storage[c].ok
  /\ SetPart(c, ctx[c], storage[c].list)
  /\ UNCHANGED storage

\* The storage of the destination is written when the merge changed something.
EnvCopy ==
  /\ CountStore
  /\ LET x == Merged([ctx["dst"] EXCEPT !.ekv = Sorted(@)], ctx["src"])
         before == Prepared(ctx["dst"])
         list == Prepared(x) IN
     /\ ctx' = [ctx EXCEPT !["dst"] = [x EXCEPT !.ekv = Sorted(@)]]
     /\ overrun' = (\E l \in {before, list} : Used(l) >= Data)
     /\ \/ Fine /\ storage' = IF list = before THEN storage
                               ELSE [storage EXCEPT !["dst"] = Stored(list)]
        \/ Fails /\ list # before /\ Damaged("dst")
  /\ want' = [want EXCEPT !["dst"] = Over(want["src"], want["dst"])]
  /\ UNCHANGED <<use, it, torn>>

\* The memory ends while variables are set; EnvCopy has the overrun before that.
EnvCopyFails ==
  /\ CountStore /\ Fails /\ Used(Prepared(ctx["dst"])) < Data
  /\ SetPart("dst", [ctx["dst"] EXCEPT !.ekv = Sorted(@)], ctx["src"].ekv)
  /\ UNCHANGED storage

\* The arrays change hands; the iterators stay where they are.
EnvMove(invalidate) ==
  /\ CountStore /\ Fine
  /\ LET s == ctx["src"] list == Prepared(s) IN
     /\ ctx' = [src |-> [Empty EXCEPT !.eit = s.eit, !.fit = s.fit],
                dst |-> [ctx["dst"] EXCEPT !.ekv = Sorted(s.ekv), !.fkv = s.fkv]]
     /\ Overruns(list)
     /\ storage' = [dst |-> Stored(list), src |-> IF invalidate THEN Bad ELSE storage["src"]]
  /\ want' = [src |-> Nothing, dst |-> want["src"]]
  /\ UNCHANGED <<use, it, torn>>

\* The export of the destination fails and both contexts have the arrays: the
\* caller destroys the destination and forgets the source (select_slot).
EnvMoveFails ==
  /\ CountStore /\ Fails /\ Damaged("dst")
  /\ ctx' = [c \in Ctx |-> Empty] /\ want' = [c \in Ctx |-> Nothing]
  /\ Overruns(Prepared(ctx["src"]))
  /\ UNCHANGED <<use, it, torn>>

EnvInvalidate(c) ==
  /\ CountStore /\ Fine
  /\ storage' = [storage EXCEPT ![c] = Bad]
  /\ UNCHANGED <<use, ctx, want, it, torn, overrun>>

\* env_deinit, and env_init for the next use
EnvDeinit(c) ==
  /\ CountStore /\ Fine
  /\ Calls(c, Empty, Nothing, FALSE)
  /\ UNCHANGED <<storage, torn>>

Init ==
  /\ use \in Uses /\ ctx = [c \in Ctx |-> Empty] /\ storage \in [Ctx -> Contents]
  /\ use = "iterate" => storage = [c \in Ctx |-> Bad]
  /\ want = [c \in Ctx |-> Nothing] /\ it = NoIteration
  /\ torn = FALSE /\ overrun = FALSE /\ ops = 0 /\ faults = 0

Next ==
  \/ \E c \in Ctx, k \in Name :
       \/ \E v \in Vals : EnvSet(c, k, v)
       \/ EnvUnset(c, k)
       \/ \E a \in Attr \cup {None} : EnvSetFlag(c, k, a) \/ EnvSetFlagTorn(c, k, a)
  \/ KeyNext \/ \E kind \in Kind : KeyFirst(kind)
  \/ \E c \in Ctx : EnvExport(c) \/ EnvImport(c) \/ EnvImportFails(c) \/ EnvInvalidate(c) \/ EnvDeinit(c)
  \/ EnvCopy \/ EnvCopyFails \/ EnvMoveFails \/ \E invalidate \in BOOLEAN : EnvMove(invalidate)

Spec == Init /\ [][Next]_vars
-----------------------------------------------------------------------------
\* env_get and env_get_flag give what the last call on the name set, through any
\* sequence of sets, deletions, imports, copies and moves, whatever becomes of
\* the order of the arrays; flags only until a change of ".flags" fails.
LastSetCounts ==
  \A c \in Ctx : Shown(ctx[c]).var = want[c].var /\ (~torn => Shown(ctx[c]).flag = want[c].flag)

\* The variable ".flags" lists the flags of the context, and is there only if there
\* are any: env_set_flag, env_import and env_copy keep the two in step as long as
\* env_set_flag does not run out of memory half-way.
FlagsInStep ==
  ~torn => \A c \in Ctx :
    LET x == ctx[c] i == Find(x.ekv, Flags) IN
    IF i = 0 THEN x.fkv = <<>> ELSE x.ekv[i].value = x.fkv

\* Whatever context is exported, a fresh context that imports it has the same
\* variables and flags, if they fit the storage with the end mark.
RoundTrip ==
  ~torn => \A c \in Ctx :
    Used(ctx[c].ekv) < Data => Shown(Imported(Empty, Prepared(ctx[c]))) = Shown(ctx[c])

\* An iteration visits every name that is there from its start to its end, and
\* none twice, while the caller sets variables and deletes ones that are there, the
\* one just visited among them (env_get_key_next, env_get_flag_key_next).
IterationComplete ==
  it.quiet => ~it.again /\ (it.over => it.since \subseteq it.visited)
=============================================================================
