-------------------------------- MODULE Ipc --------------------------------
(***************************************************************************)
(* The services of SBL-S3: clients on other cores write requests into      *)
(* mailbox FIFOs and ring a doorbell, the interrupt handler moves one      *)
(* request per doorbell to a queue, and the main loop executes the queue   *)
(* in a critical section and answers in shared memory.                     *)
(*                                                                         *)
(* Clients are outside the repository.  They follow the protocol of        *)
(* risc0-ipc/server/protocol.h: a request is written completely before its *)
(* doorbell is rung, a client that asks for a response waits for it.  What *)
(* they write into a request is up to them: its lengths and its addresses  *)
(* may be wrong.                                                           *)
(***************************************************************************)
EXTENDS Naturals, Sequences, FiniteSets, FiniteSetsExt

CONSTANTS Link,        \* mailbox FIFOs in use
          Usages,      \* sets of kinds of requests the clients may make
          MaxReq,      \* bound on the requests of one client
          FifoWords,   \* MAILBOX_MAX_FIFO_SIZE
          Blocks,      \* blocks the heap can hand out
          Slot         \* 2 MiB windows of the IOMMU

NoLink == "no link"
NoReq == [link |-> NoLink, n |-> 0, kind |-> "none"]

\* "ask" wants a response, and its service has a result for it.  "void" wants one
\* too, but its service leaves resp_param as it is: it has no result (the ping of
\* the watchdog), it is unknown, or it is refused on this link.  "fatal" wants a
\* response and has an address in the first 4 GB, of the response or of the OTP dump,
\* for which its execution panics.  "tell" wants no response, "misfit" has a wrong
\* cmd_len or shrmem_len, "stray" is a header without the magic number.
Asking == {"ask", "void", "fatal"}
AllKinds == Asking \cup {"tell", "misfit", "stray"}
HeaderWords == 2
Words(k) == CASE k \in Asking -> 8 [] k \in {"tell", "misfit"} -> 6 [] k = "stray" -> HeaderWords

ASSUME IpcAssumption ==
  /\ Usages \subseteq SUBSET AllKinds /\ NoLink \notin Link
  /\ MaxReq \in Nat /\ Blocks \in Nat /\ FifoWords \in Nat /\ FifoWords >= 8
  /\ Slot \subseteq Nat /\ IsFiniteSet(Slot) /\ Slot # {}

VARIABLES
  kinds,     \* the kinds of requests the clients make
  client,    \* what each client does: "idle", "writing", "ringing", "waiting"
  writing,   \* the request each client writes or has written last
  fifo,      \* complete requests in each FIFO
  irq,       \* set_irq_read of each FIFO
  isr,       \* where the interrupt handler is: "out", "handle", "clear"
  isrLink,   \* fifo_num of the interrupt handler
  masked,    \* interrupts are disabled by the critical section
  queue,     \* mbox_msgs
  pc,        \* where the main loop is
  cur, last, \* data and (tail == head) of queue_pop; cur is then the request at work
  used,      \* blocks taken from the heap
  window, slot,  \* slots of the IOMMU in use, and the one of the response
  shm,       \* response buffer of each client: parameters and state
  posted, handled, lost  \* history: requests written, executed, not queued

clientVars == <<kinds, client, writing, posted>>
isrVars == <<isr, isrLink, irq, lost>>
mainVars == <<masked, pc, cur, last, window, slot, handled>>
vars == <<clientVars, fifo, isrVars, mainVars, queue, used, shm>>

Running == pc # "panic"
-----------------------------------------------------------------------------
(***************************************************************************)
(* Clients.                                                                *)
(***************************************************************************)
\* Words in the FIFO, those of a request written up to its header included.
Occupied(l) == MapThenSumSet(LAMBDA i : Words(fifo[l][i].kind), DOMAIN fifo[l])
                 + (IF client[l] = "writing" THEN HeaderWords ELSE 0)

Write(l, k) ==
  /\ client[l] = "idle" /\ Len(posted[l]) < MaxReq
  /\ Occupied(l) + HeaderWords <= FifoWords
  /\ client' = [client EXCEPT ![l] = "writing"]
  /\ writing' = [writing EXCEPT ![l] = [link |-> l, n |-> Len(posted[l]) + 1, kind |-> k]]
  /\ shm' = [shm EXCEPT ![l].state = "busy"]
  /\ UNCHANGED <<kinds, posted, fifo, isrVars, mainVars, queue, used>>

WriteRest(l) ==
  /\ client[l] = "writing"
  /\ Occupied(l) + Words(writing[l].kind) - HeaderWords <= FifoWords
  /\ client' = [client EXCEPT ![l] = "ringing"]
  /\ fifo' = [fifo EXCEPT ![l] = Append(@, writing[l])]
  /\ posted' = [posted EXCEPT ![l] = Append(@, writing[l])]
  /\ UNCHANGED <<kinds, writing, isrVars, mainVars, queue, used, shm>>

Ring(l) ==
  /\ client[l] = "ringing"
  /\ irq' = [irq EXCEPT ![l] = TRUE]
  /\ client' = [client EXCEPT ![l] = IF writing[l].kind \in Asking THEN "waiting" ELSE "idle"]
  /\ UNCHANGED <<kinds, writing, posted, fifo, isr, isrLink, lost, mainVars, queue, used, shm>>

Collect(l) ==
  /\ client[l] = "waiting" /\ shm[l].state = "complete"
  /\ client' = [client EXCEPT ![l] = "idle"]
  /\ UNCHANGED <<kinds, writing, posted, fifo, isrVars, mainVars, queue, used, shm>>
-----------------------------------------------------------------------------
(***************************************************************************)
(* The interrupt handler: irq_handler, irq_mailbox_handler and             *)
(* risc0_ipc_irq_handler.                                                  *)
(***************************************************************************)

\* Mutant: the critical section does not keep the interrupt handler out.
IsrEnterUnmasked(l) ==
  /\ isr = "out" /\ irq[l]
  /\ isr' = "handle" /\ isrLink' = l
  /\ UNCHANGED <<clientVars, fifo, irq, lost, mainVars, queue, used, shm>>

\* Mutant: the handler runs for every FIFO, whether its doorbell was rung or not.
IsrEnterAny(l) ==
  /\ ~masked /\ isr = "out"
  /\ isr' = "handle" /\ isrLink' = l
  /\ UNCHANGED <<clientVars, fifo, irq, lost, mainVars, queue, used, shm>>

\* The interrupt is pending because set_irq_read is, which is read here.
IsrEnter(l) ==
  /\ ~masked /\ isr = "out" /\ irq[l]
  /\ isr' = "handle" /\ isrLink' = l
  /\ UNCHANGED <<clientVars, fifo, irq, lost, mainVars, queue, used, shm>>

MboxIsEmpty(l) == fifo[l] = <<>> /\ client[l] # "writing"

\* The rest of a request stays away for longer than mbox_read waits.
MboxReadTimesOut(l) == fifo[l] = <<>> /\ client[l] = "writing"

\* The request has its block already; without a node for it, it is forgotten.
QueuePush(r) ==
  IF used + 1 < Blocks
  THEN queue' = Append(queue, r) /\ used' = used + 2 /\ UNCHANGED lost
  ELSE lost' = Append(lost, r) /\ used' = used + 1 /\ UNCHANGED queue

\* Without memory, for a wrong length, or when the rest of a request does not come,
\* the handler panics.  A stray header is dropped, and its block with it.
IsrHandle ==
  LET l == isrLink
      r == Head(fifo[l])
  IN  /\ isr = "handle"
      /\ isr' = "clear"
      /\ IF MboxIsEmpty(l) THEN UNCHANGED <<pc, fifo, queue, used, lost>>
         ELSE IF used = Blocks \/ MboxReadTimesOut(l)
         THEN pc' = "panic" /\ UNCHANGED <<fifo, queue, used, lost>>
         ELSE /\ fifo' = [fifo EXCEPT ![l] = Tail(@)]
              /\ IF r.kind \in {"stray", "misfit"}
                 THEN lost' = Append(lost, r) /\ used' = used + 1 /\ UNCHANGED queue
                 ELSE QueuePush(r)
              /\ pc' = IF r.kind = "misfit" THEN "panic" ELSE pc
      /\ UNCHANGED <<clientVars, isrLink, irq, masked, cur, last, window, slot, handled, shm>>

IsrLeave ==
  /\ isr = "clear" /\ isr' = "out"
  /\ irq' = [irq EXCEPT ![isrLink] = FALSE]
  /\ UNCHANGED <<clientVars, fifo, isrLink, lost, mainVars, queue, used, shm>>
-----------------------------------------------------------------------------
(***************************************************************************)
(* The main loop: risc0_ipc_handler.  It stands still while the interrupt  *)
(* handler runs.                                                           *)
(***************************************************************************)
Main(from) == isr = "out" /\ pc = from

CriticalSectionEnter ==
  /\ Main("loop") /\ pc' = "pop" /\ masked' = TRUE
  /\ UNCHANGED <<clientVars, fifo, isrVars, cur, last, window, slot, handled, queue, used, shm>>

QueuePop ==
  /\ Main("pop")
  /\ IF queue = <<>> THEN pc' = "exit" /\ UNCHANGED <<cur, last>>
     ELSE pc' = "unlink" /\ cur' = Head(queue) /\ last' = (Len(queue) = 1)
  /\ UNCHANGED <<clientVars, fifo, isrVars, masked, window, slot, handled, queue, used, shm>>

QueueUnlink ==
  /\ Main("unlink") /\ pc' = "serve"
  /\ queue' = IF last THEN <<>> ELSE Tail(queue)
  /\ used' = used - 1
  /\ UNCHANGED <<clientVars, fifo, isrVars, masked, cur, last, window, slot, handled, shm>>

\* What risc0_ipc_resp may find in resp_param, which is not initialized: the result of
\* the request, or whatever is on the stack, an earlier result included.
RespParam(q) == IF q.kind = "ask" THEN {q.n} ELSE 0..MaxReq

\* Mutant: the state is written in front of the parameters.
ServeStateFirst ==
  /\ Main("serve")
  /\ handled' = [handled EXCEPT ![cur.link] = Append(@, cur)]
  /\ IF cur.kind \notin Asking THEN pc' = "free" /\ UNCHANGED <<window, slot, shm>>
     ELSE /\ window' = {Min(Slot)} /\ slot' = Min(Slot)
          /\ shm' = [shm EXCEPT ![cur.link] = [@ EXCEPT !.state = "complete"]]
          /\ pc' = "copied"
  /\ UNCHANGED <<clientVars, fifo, isrVars, masked, cur, last, queue, used>>

\* risc0_ipc_cmd_handler and the first half of risc0_ipc_resp.
Serve ==
  /\ Main("serve")
  /\ handled' = [handled EXCEPT ![cur.link] = Append(@, cur)]
  /\ IF cur.kind \notin Asking THEN pc' = "free" /\ UNCHANGED <<window, slot, shm>>
     ELSE IF cur.kind = "fatal" \/ Slot \subseteq window THEN pc' = "panic" /\ UNCHANGED <<window, slot, shm>>
     ELSE /\ slot' = Min(Slot \ window) /\ window' = window \cup {slot'}
          /\ \E v \in RespParam(cur) : shm' = [shm EXCEPT ![cur.link] = [@ EXCEPT !.param = v]]
          /\ pc' = "copied"
  /\ UNCHANGED <<clientVars, fifo, isrVars, masked, cur, last, queue, used>>

Complete ==
  /\ Main("copied") /\ pc' = "unmap"
  /\ shm' = [shm EXCEPT ![cur.link] = [@ EXCEPT !.state = "complete"]]
  /\ UNCHANGED <<clientVars, fifo, isrVars, masked, cur, last, window, slot, handled, queue, used>>

IommuUnmap ==
  /\ Main("unmap") /\ pc' = "free"
  /\ window' = window \ {slot}
  /\ UNCHANGED <<clientVars, fifo, isrVars, masked, cur, last, slot, handled, queue, used, shm>>

\* Mutant: the request is not given back to the heap.
FreeNot ==
  /\ Main("free") /\ pc' = "exit"
  /\ cur' = NoReq
  /\ UNCHANGED <<clientVars, fifo, isrVars, masked, last, window, slot, handled, queue, used, shm>>

Free ==
  /\ Main("free") /\ pc' = "exit"
  /\ cur' = NoReq /\ used' = used - 1
  /\ UNCHANGED <<clientVars, fifo, isrVars, masked, last, window, slot, handled, queue, shm>>

\* Mutant: interrupts stay disabled.
CriticalSectionExitMasked ==
  /\ Main("exit") /\ pc' = "loop"
  /\ UNCHANGED <<clientVars, fifo, isrVars, masked, cur, last, window, slot, handled, queue, used, shm>>

CriticalSectionExit ==
  /\ Main("exit") /\ pc' = "loop" /\ masked' = FALSE
  /\ UNCHANGED <<clientVars, fifo, isrVars, cur, last, window, slot, handled, queue, used, shm>>
-----------------------------------------------------------------------------
Init ==
  /\ kinds \in Usages
  /\ client = [l \in Link |-> "idle"] /\ writing = [l \in Link |-> NoReq]
  /\ fifo = [l \in Link |-> <<>>] /\ irq = [l \in Link |-> FALSE]
  /\ isr = "out" /\ isrLink = NoLink /\ masked = FALSE
  /\ queue = <<>> /\ pc = "loop" /\ cur = NoReq /\ last = FALSE
  /\ used = 0 /\ window = {} /\ slot = Min(Slot)
  /\ shm = [l \in Link |-> [param |-> 0, state |-> "busy"]]
  /\ posted = [l \in Link |-> <<>>] /\ handled = [l \in Link |-> <<>>] /\ lost = <<>>

ClientSteps == \E l \in Link : (\E k \in kinds : Write(l, k)) \/ WriteRest(l) \/ Ring(l) \/ Collect(l)
IsrSteps == IsrHandle \/ IsrLeave
MainSteps == CriticalSectionEnter \/ QueuePop \/ QueueUnlink \/ Serve \/ Complete
               \/ IommuUnmap \/ Free \/ CriticalSectionExit

Next == ClientSteps \/ (Running /\ ((\E l \in Link : IsrEnter(l)) \/ IsrSteps \/ MainSteps))

Spec == Init /\ [][Next]_vars

\* The core executes; a client ends what it has begun; a pending interrupt is
\* taken as soon as interrupts are enabled, which the main loop does in every
\* round, before the core executes anything else.
Fairness ==
  /\ WF_vars(Running /\ IsrSteps) /\ WF_vars(Running /\ MainSteps)
  /\ SF_vars(Running /\ \E l \in Link : IsrEnter(l))
  /\ \A l \in Link : WF_vars(WriteRest(l)) /\ WF_vars(Ring(l)) /\ WF_vars(Collect(l))

FairSpec == Spec /\ Fairness
-----------------------------------------------------------------------------
\* The requests from the FIFO of l to their execution, the oldest in front; the
\* queue has those of the other clients too.
Flow(l) == handled[l] \o (IF pc = "serve" THEN <<cur>> ELSE <<>>) \o queue \o fifo[l]
Own(s, l) == {i \in DOMAIN s : s[i].link = l}

\* Whatever the interleaving of client, interrupt handler and main loop, the
\* requests of a client are executed once, in the order they were posted in, and none
\* disappears between FIFO, queue and execution, but those the handler drops
\* (risc0_ipc_irq_handler, queue_push, queue_pop).
ExactlyOnceInOrder ==
  \A l \in Link : LET s == Flow(l) IN
    /\ {s[i] : i \in Own(s, l)} = {posted[l][n] : n \in DOMAIN posted[l]} \ Range(lost)
    /\ \A i, j \in Own(s, l) : i < j => s[i].n < s[j].n
    /\ \A n \in DOMAIN posted[l] : posted[l][n].n = n

\* A client that finds the state COMPLETE while it waits knows that its own request
\* has been executed, and finds the result of that request if the service has one
\* (order of the writes in risc0_ipc_resp).  When the service has none, COMPLETE
\* says nothing of the parameters, which may be those of anybody.
AnswerIsMine ==
  \A l \in Link : client[l] = "waiting" /\ shm[l].state = "complete"
    => /\ \E i \in DOMAIN handled[l] : handled[l][i] = writing[l]
       /\ writing[l].kind = "ask" => shm[l].param = writing[l].n

\* SBL-S3 stops (panic_handler) only for an exhausted heap, for the wrong length of a
\* request just read, or for the request at work: the interrupt handler never finds
\* less than a whole request, so mbox_read does not time out, and there is always a
\* window for the response.
PanicOnlyWithCause ==
  pc = "panic" => \/ used = Blocks
                  \/ lost # <<>> /\ lost[Len(lost)].kind = "misfit"
                  \/ cur.kind = "fatal"

\* Memory is taken for queued requests and the one at work only: two blocks for
\* each queued request, one for the request at work, and one for each request
\* that was dropped.  Windows of the IOMMU are in use in the critical section
\* only (free, iommu_unmap).
NothingLeaks ==
  /\ pc # "panic" =>
       used = 2 * Len(queue) + Len(lost)
                + (IF pc \in {"unlink", "loop", "pop", "exit"} THEN 0 ELSE 1)
  /\ pc \notin {"copied", "unmap", "panic"} => window = {}

\* If every client waits for the response before it asks again, and asks for nothing
\* that stops SBL-S3, every client that waits gets its response: no doorbell of
\* such clients is lost (irq_mailbox_handler).
EveryRequestAnswered ==
  kinds \subseteq {"ask", "void"} => \A l \in Link : client[l] = "waiting" ~> client[l] # "waiting"

=============================================================================
