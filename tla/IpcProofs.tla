----------------------------- MODULE IpcProofs -----------------------------
(***************************************************************************)
(* Proofs about Ipc for every set of clients, every number of requests,    *)
(* every size of the heap and any usage of the mailboxes.                  *)
(***************************************************************************)
EXTENDS Ipc, TLAPS

Req == [link : Link, n : Nat, kind : AllKinds]

\* What the interrupt handler and the main loop rely on besides the types: they
\* exclude each other, and queue_pop has read the queue as it is.
TypeInv ==
  /\ kinds \subseteq AllKinds
  /\ client \in [Link -> {"idle", "writing", "ringing", "waiting"}]
  /\ writing \in [Link -> Req \cup {NoReq}]
  /\ fifo \in [Link -> Seq(Req)] /\ irq \in [Link -> BOOLEAN]
  /\ isr \in {"out", "handle", "clear"} /\ (isr # "out" => isrLink \in Link)
  /\ queue \in Seq(Req)
  /\ pc \in {"loop", "pop", "unlink", "serve", "copied", "unmap", "free", "exit", "panic"}
  /\ pc \in {"unlink", "serve", "copied", "unmap", "free"} => cur \in Req
  /\ pc = "unlink" => queue # <<>> /\ cur = Head(queue) /\ last = (Len(queue) = 1)
  /\ used \in Int
  /\ shm \in [Link -> [param : Nat, state : {"busy", "complete"}]]
  /\ posted \in [Link -> Seq(Req)] /\ handled \in [Link -> Seq(Req)]
  /\ lost \in Seq(Req)
  /\ pc \notin {"loop", "panic"} => isr = "out" /\ masked

\* A request is numbered when it is written: those of a client are executed, at
\* work, queued and in its FIFO in the order of their numbers.
Numbered ==
  \A l \in Link :
    /\ client[l] # "idle" => writing[l] \in Req /\ writing[l].link = l
    /\ client[l] = "writing" => writing[l].n = Len(posted[l]) + 1
    /\ \A i \in 1..Len(fifo[l]) : fifo[l][i].link = l /\ fifo[l][i].n <= Len(posted[l])
    /\ \A i, j \in 1..Len(fifo[l]) : i < j => fifo[l][i].n < fifo[l][j].n

\* The numbers in front of the FIFO of a client.
InFront(r) ==
  /\ r.n <= Len(posted[r.link])
  /\ \A i \in 1..Len(fifo[r.link]) : r.n < fifo[r.link][i].n

QueueOrder ==
  /\ \A i \in 1..Len(queue) : InFront(queue[i])
  /\ \A i, j \in 1..Len(queue) : i < j /\ queue[i].link = queue[j].link => queue[i].n < queue[j].n
  /\ pc \in {"serve", "copied"} =>
       /\ InFront(cur)
       /\ \A i \in 1..Len(queue) : queue[i].link = cur.link => cur.n < queue[i].n

LostOrder == \A r \in Range(lost) : InFront(r)

\* As many requests are in the FIFO of a client as its doorbell is good for: one
\* for the request it is about to ring for, and one for a pending doorbell whose
\* request the interrupt handler has not taken.
Bells ==
  /\ \A l \in Link :
       Len(fifo[l]) >= (IF client[l] = "ringing" THEN 1 ELSE 0)
                         + (IF irq[l] /\ ~(isr = "clear" /\ isrLink = l) THEN 1 ELSE 0)
  /\ isr = "handle" => irq[isrLink]

Windows ==
  /\ pc \notin {"copied", "unmap", "panic"} => window = {}
  /\ pc \in {"copied", "unmap"} => window = {slot}

Outstanding(r) ==
  \/ \E l \in Link : \E i \in 1..Len(fifo[l]) : r = fifo[l][i]
  \/ \E i \in 1..Len(queue) : r = queue[i]
  \/ pc \in {"serve", "copied"} /\ r = cur

\* A client has at most one request outstanding that wants a response, the one it
\* wrote last, and the state of its response buffer is "busy" until then.
Asked ==
  /\ \A l \in Link : client[l] = "writing" => shm[l].state = "busy"
  /\ \A l \in Link : client[l] = "waiting" => writing[l].kind \in Asking
  /\ \A r \in Req : Outstanding(r) /\ r.kind \in Asking =>
       /\ client[r.link] \in {"ringing", "waiting"} /\ r = writing[r.link]
       /\ shm[r.link].state = "busy"
  /\ pc = "copied" =>
       /\ cur.kind \in Asking /\ (cur.kind = "ask" => shm[cur.link].param = cur.n)
       /\ \E i \in DOMAIN handled[cur.link] : handled[cur.link][i] = cur
  /\ \A l \in Link :
       client[l] \in {"ringing", "waiting"} /\ writing[l].kind \in Asking /\ shm[l].state = "complete"
         => /\ writing[l].kind = "ask" => shm[l].param = writing[l].n
            /\ \E i \in DOMAIN handled[l] : handled[l][i] = writing[l]

IInv == TypeInv /\ Numbered /\ QueueOrder /\ LostOrder /\ Bells /\ Windows /\ Asked
          /\ PanicOnlyWithCause
-----------------------------------------------------------------------------
LEMMA SeqLen ==
  ASSUME NEW S, NEW s \in Seq(S)
  PROVE  Len(s) \in Nat /\ DOMAIN s = 1..Len(s) /\ s \in [1..Len(s) -> S]
OBVIOUS

LEMMA SeqElement ==
  ASSUME NEW S, NEW s \in Seq(S), NEW i \in 1..Len(s)
  PROVE  s[i] \in S
OBVIOUS

LEMMA SeqEmpty ==
  ASSUME NEW S
  PROVE  <<>> \in Seq(S) /\ Len(<<>>) = 0 /\ \A s \in Seq(S) : s # <<>> => Len(s) \in Nat \ {0}
OBVIOUS

LEMMA SeqAppend ==
  ASSUME NEW S, NEW s \in Seq(S), NEW e \in S
  PROVE  /\ Append(s, e) \in Seq(S) /\ Append(s, e) # <<>> /\ Len(Append(s, e)) = Len(s) + 1
         /\ \A i \in 1..Len(s) : Append(s, e)[i] = s[i]
         /\ Append(s, e)[Len(s) + 1] = e
OBVIOUS

LEMMA SeqTail ==
  ASSUME NEW S, NEW s \in Seq(S), s # <<>>
  PROVE  /\ Head(s) \in S /\ Tail(s) \in Seq(S) /\ Len(Tail(s)) = Len(s) - 1
         /\ \A i \in 1..Len(Tail(s)) : Tail(s)[i] = s[i + 1]
OBVIOUS

LEMMA SeqConcat ==
  ASSUME NEW S, NEW s \in Seq(S), NEW t \in Seq(S)
  PROVE  /\ s \o t \in Seq(S) /\ Len(s \o t) = Len(s) + Len(t)
         /\ \A i \in 1..(Len(s) + Len(t)) : (s \o t)[i] = IF i <= Len(s) THEN s[i] ELSE t[i - Len(s)]
OBVIOUS

LEMMA SeqRange ==
  ASSUME NEW S, NEW s \in Seq(S)
  PROVE  Range(s) \subseteq S /\ \A x \in S : Range(Append(s, x)) = Range(s) \cup {x}
<1>1. Range(s) \subseteq S
  BY DEF Range
<1>2. ASSUME NEW x \in S PROVE Range(Append(s, x)) = Range(s) \cup {x}
  <2>1. /\ DOMAIN s = 1..Len(s) /\ DOMAIN Append(s, x) = 1..(Len(s) + 1) /\ Len(s) \in Nat
        /\ \A i \in 1..Len(s) : Append(s, x)[i] = s[i]
        /\ Append(s, x)[Len(s) + 1] = x
    BY SeqAppend, SeqLen
  <2>2. \A i \in 1..(Len(s) + 1) : i \in 1..Len(s) \/ i = Len(s) + 1
    BY <2>1
  <2>3. 1..Len(s) \subseteq 1..(Len(s) + 1) /\ Len(s) + 1 \in 1..(Len(s) + 1)
    BY <2>1
  <2> QED
    BY <2>1, <2>2, <2>3, Zenon DEF Range
<1> QED
  BY <1>1, <1>2

LEMMA ReqType ==
  ASSUME NEW r \in Req
  PROVE  r.n \in Nat /\ r.link \in Link /\ r.kind \in AllKinds
BY DEF Req

LEMMA Elements ==
  ASSUME NEW s \in Seq(Req), NEW i \in 1..Len(s)
  PROVE  s[i] \in Req /\ s[i].n \in Nat /\ s[i].link \in Link
<1>1. s[i] \in Req
  BY SeqElement
<1> QED
  BY <1>1, ReqType

LEMMA InitInv == Init => IInv
<1> SUFFICES ASSUME Init PROVE IInv
  OBVIOUS
<1> USE IpcAssumption DEF Init
<1>1. TypeInv
  <2>1. writing \in [Link -> Req \cup {NoReq}] /\ kinds \subseteq AllKinds
    OBVIOUS
  <2>2. /\ fifo \in [Link -> Seq(Req)] /\ queue \in Seq(Req)
        /\ posted \in [Link -> Seq(Req)] /\ handled \in [Link -> Seq(Req)] /\ lost \in Seq(Req)
    OBVIOUS
  <2> QED
    BY <2>1, <2>2 DEF TypeInv
<1>2. Numbered /\ QueueOrder /\ Bells /\ Windows /\ PanicOnlyWithCause
  BY DEF Numbered, QueueOrder, Bells, Windows, PanicOnlyWithCause
<1>3. LostOrder
  BY DEF LostOrder, Range
<1>4. Asked
  BY DEF Asked, Outstanding
<1> QED
  BY <1>1, <1>2, <1>3, <1>4 DEF IInv
-----------------------------------------------------------------------------
(***************************************************************************)
(* Clients.                                                                *)
(***************************************************************************)
LEMMA WriteStep ==
  ASSUME IInv, NEW l \in Link, NEW k \in kinds, Write(l, k)
  PROVE  IInv'
<1> DEFINE r == [link |-> l, n |-> Len(posted[l]) + 1, kind |-> k]
<1>0. r \in Req /\ l \in Link
  BY DEF IInv, TypeInv, Req
<1> USE DEF Write, isrVars, mainVars
<1>1. TypeInv'
  <2>1. writing' \in [Link -> Req \cup {NoReq}]
    BY <1>0 DEF IInv, TypeInv
  <2>2. shm' \in [Link -> [param : Nat, state : {"busy", "complete"}]]
    BY Zenon DEF IInv, TypeInv
  <2>3. client' \in [Link -> {"idle", "writing", "ringing", "waiting"}]
    BY DEF IInv, TypeInv
  <2> QED
    BY <2>1, <2>2, <2>3, Zenon DEF IInv, TypeInv
<1>2. Numbered'
  BY <1>0, ZenonT(60) DEF IInv, TypeInv, Numbered
<1>3. QueueOrder' /\ LostOrder' /\ Windows' /\ PanicOnlyWithCause'
  BY Zenon DEF IInv, QueueOrder, LostOrder, InFront, Windows, PanicOnlyWithCause
<1>4. Bells'
  BY Zenon DEF IInv, TypeInv, Bells
<1>5. Asked'
  <2>1. \A q \in Req : Outstanding(q) /\ q.kind \in Asking => q.link # l
    BY DEF IInv, Asked
  <2>2. \A q : Outstanding(q)' <=> Outstanding(q)
    BY DEF Outstanding
  <2>3. \A m \in Link : m # l => client'[m] = client[m] /\ writing'[m] = writing[m] /\ shm'[m] = shm[m]
    BY DEF IInv, TypeInv
  <2>4. client'[l] = "writing" /\ shm'[l].state = "busy" /\ shm'[l].param = shm[l].param
    BY DEF IInv, TypeInv
  <2>5. \A m \in Link : shm'[m].param = shm[m].param
    BY <2>3, <2>4
  <2>6. \A q \in Req : q.link \in Link
    BY DEF Req
  <2>7. pc = "copied" => cur.link \in Link
    BY <2>6, Zenon DEF IInv, TypeInv
  <2> QED
    BY <2>1, <2>2, <2>3, <2>4, <2>5, <2>6, <2>7 DEF IInv, Asked
<1> QED
  BY <1>1, <1>2, <1>3, <1>4, <1>5 DEF IInv

LEMMA WriteRestStep ==
  ASSUME IInv, NEW l \in Link, WriteRest(l)
  PROVE  IInv'
<1> USE DEF WriteRest, isrVars, mainVars
<1>0. /\ writing[l] \in Req /\ writing[l].link = l /\ writing[l].n = Len(posted[l]) + 1
      /\ fifo[l] \in Seq(Req) /\ posted[l] \in Seq(Req)
  BY Zenon DEF IInv, TypeInv, Numbered
<1>1. /\ \A m \in Link : m # l => fifo'[m] = fifo[m] /\ posted'[m] = posted[m] /\ client'[m] = client[m]
      /\ fifo'[l] = Append(fifo[l], writing[l]) /\ posted'[l] = Append(posted[l], writing[l])
      /\ client'[l] = "ringing"
  BY Zenon DEF IInv, TypeInv
<1>2. /\ Len(fifo'[l]) = Len(fifo[l]) + 1 /\ Len(posted'[l]) = Len(posted[l]) + 1
      /\ \A i \in 1..Len(fifo[l]) : fifo'[l][i] = fifo[l][i]
      /\ fifo'[l][Len(fifo[l]) + 1] = writing[l]
      /\ fifo'[l] \in Seq(Req) /\ posted'[l] \in Seq(Req)
  BY <1>0, <1>1, SeqAppend
<1>3. Len(fifo[l]) \in Nat /\ Len(posted[l]) \in Nat
  BY <1>0, SeqLen
<1>4. TypeInv'
  <2>1. fifo' \in [Link -> Seq(Req)] /\ posted' \in [Link -> Seq(Req)]
    BY <1>0, <1>1, <1>2, Zenon DEF IInv, TypeInv
  <2>2. client' \in [Link -> {"idle", "writing", "ringing", "waiting"}]
    BY DEF IInv, TypeInv
  <2> QED
    BY <2>1, <2>2, Zenon DEF IInv, TypeInv
<1>5. Numbered'
  <2>1. ASSUME NEW m \in Link, m # l PROVE Numbered!(m)'
    BY <2>1, <1>1 DEF IInv, Numbered
  <2>2. \A i \in 1..Len(fifo[l]) : fifo[l][i].n \in Nat
    BY <1>0, Elements, Zenon
  <2>3. \A i \in 1..Len(fifo'[l]) : i \in 1..Len(fifo[l]) \/ i = Len(fifo[l]) + 1
    BY <1>2, <1>3
  <2>4. \A i \in 1..Len(fifo'[l]) : fifo'[l][i].link = l /\ fifo'[l][i].n <= Len(posted'[l])
    BY <1>0, <1>2, <1>3, <2>2, <2>3, SMTT(40) DEF IInv, Numbered
  <2>5. \A i, j \in 1..Len(fifo'[l]) : i < j => fifo'[l][i].n < fifo'[l][j].n
    BY <1>0, <1>2, <1>3, <2>2, <2>3, SMTT(40) DEF IInv, Numbered
  <2>6. Numbered!(l)'
    BY <1>0, <1>1, <2>4, <2>5, Zenon
  <2> QED
    BY <2>1, <2>6 DEF Numbered
<1>6. ASSUME NEW r \in Req, InFront(r) PROVE InFront(r)'
  <2>1. r.n \in Nat /\ r.link \in Link
    BY DEF Req
  <2>2. CASE r.link # l
    BY <2>1, <2>2, <1>1, <1>6, Zenon DEF InFront
  <2>3. CASE r.link = l
    <3>1. r.n <= Len(posted[l]) /\ \A i \in 1..Len(fifo[l]) : r.n < fifo[l][i].n
      BY <1>6, <2>3 DEF InFront
    <3>2. r.n <= Len(posted'[l])
      BY <3>1, <2>1, <1>2, <1>3
    <3>3. \A i \in 1..Len(fifo'[l]) : i \in 1..Len(fifo[l]) \/ i = Len(fifo[l]) + 1
      BY <1>2, <1>3
    <3>4. \A i \in 1..Len(fifo'[l]) : r.n < fifo'[l][i].n
      BY <3>1, <3>3, <2>1, <1>0, <1>2, <1>3
    <3> QED
      BY <3>2, <3>4, <2>3, Zenon DEF InFront
  <2> QED
    BY <2>2, <2>3, Zenon
<1>7. QueueOrder' /\ LostOrder'
  <2>1. \A i \in 1..Len(queue) : queue[i] \in Req
    BY SeqElement, Zenon DEF IInv, TypeInv
  <2>2. \A r \in Range(lost) : r \in Req /\ InFront(r)
    BY SeqRange, Zenon DEF IInv, TypeInv, LostOrder
  <2>3. LostOrder'
    <3>1. lost' = lost
      OBVIOUS
    <3> QED
      BY <1>6, <2>2, <3>1 DEF LostOrder
  <2>4. QueueOrder'
    BY <1>6, <2>1, Zenon DEF IInv, TypeInv, QueueOrder
  <2> QED
    BY <2>3, <2>4
<1>8. Bells'
  BY <1>1, <1>2, <1>3, SMTT(40) DEF IInv, TypeInv, Bells
<1>9. Windows' /\ PanicOnlyWithCause'
  BY DEF IInv, Windows, PanicOnlyWithCause
<1>10. Asked'
  <2>1. \A q \in Req : Outstanding(q)' => Outstanding(q) \/ q = writing[l]
    BY <1>1, <1>2, <1>3, SMTT(40) DEF Outstanding
  <2>2. shm[l].state = "busy"
    BY Zenon DEF IInv, Asked
  <2>3. \A q \in Req : q.link \in Link
    BY DEF Req
  <2> QED
    <3>1. Asked!3'
      BY <1>0, <1>1, <2>1, <2>2, <2>3, SMTT(30) DEF IInv, Asked
    <3>2. Asked!1' /\ Asked!2'
      BY <1>1, <2>2 DEF IInv, Asked
    <3>3. Asked!4'
      BY <1>1, Zenon DEF IInv, Asked
    <3>4. Asked!5'
      BY <1>1, <2>2, ZenonT(30) DEF IInv, Asked
    <3> QED
      BY <3>1, <3>2, <3>3, <3>4, Zenon DEF Asked
<1> QED
  BY <1>4, <1>5, <1>7, <1>8, <1>9, <1>10 DEF IInv

LEMMA RingStep ==
  ASSUME IInv, NEW l \in Link, Ring(l)
  PROVE  IInv'
<1> USE DEF Ring, mainVars
<1>1. /\ \A m \in Link : m # l => irq'[m] = irq[m] /\ client'[m] = client[m]
      /\ irq'[l] = TRUE /\ client'[l] = (IF writing[l].kind \in Asking THEN "waiting" ELSE "idle")
  BY DEF IInv, TypeInv
<1>2. TypeInv'
  BY Zenon DEF IInv, TypeInv
<1>3. Numbered'
  BY <1>1, SMTT(30) DEF IInv, Numbered
<1>4. QueueOrder' /\ LostOrder' /\ Windows' /\ PanicOnlyWithCause'
  BY Zenon DEF IInv, QueueOrder, LostOrder, InFront, Windows, PanicOnlyWithCause
<1>5. Bells'
  <2>1. \A m \in Link : Len(fifo[m]) \in Nat
    BY SeqLen DEF IInv, TypeInv
  <2> QED
    BY <1>1, <2>1, SMTT(40) DEF IInv, TypeInv, Bells
<1>6. Asked'
  <2>1. \A q : Outstanding(q)' <=> Outstanding(q)
    BY Zenon DEF Outstanding
  <2>2. \A q \in Req : q.link \in Link
    BY Zenon DEF Req
  <2> QED
    BY <1>1, <2>1, <2>2 DEF IInv, Asked
<1> QED
  BY <1>2, <1>3, <1>4, <1>5, <1>6, Zenon DEF IInv

LEMMA CollectStep ==
  ASSUME IInv, NEW l \in Link, Collect(l)
  PROVE  IInv'
<1> USE DEF Collect, isrVars, mainVars
<1>1. (\A m \in Link : m # l => client'[m] = client[m]) /\ client'[l] = "idle"
  BY DEF IInv, TypeInv
<1>2. TypeInv'
  BY Zenon DEF IInv, TypeInv
<1>3. Numbered' /\ Bells'
  BY <1>1, SMTT(30) DEF IInv, Numbered, Bells
<1>4. QueueOrder' /\ LostOrder' /\ Windows' /\ PanicOnlyWithCause'
  BY Zenon DEF IInv, QueueOrder, LostOrder, InFront, Windows, PanicOnlyWithCause
<1>5. Asked'
  <2>1. \A q : Outstanding(q)' <=> Outstanding(q)
    BY Zenon DEF Outstanding
  <2>2. \A q \in Req : q.link \in Link
    BY DEF Req
  <2> QED
    BY <1>1, <2>1, <2>2, ZenonT(60) DEF IInv, Asked
<1> QED
  BY <1>2, <1>3, <1>4, <1>5, Zenon DEF IInv
-----------------------------------------------------------------------------
(***************************************************************************)
(* The interrupt handler.                                                  *)
(***************************************************************************)
LEMMA IsrEnterStep ==
  ASSUME IInv, NEW l \in Link, Running, IsrEnter(l)
  PROVE  IInv'
<1> USE DEF IsrEnter, clientVars, mainVars
<1>1. TypeInv'
  BY Zenon DEF IInv, TypeInv, Running
<1>2. Numbered' /\ QueueOrder' /\ LostOrder' /\ Windows' /\ PanicOnlyWithCause'
  BY DEF IInv, Numbered, QueueOrder, LostOrder, InFront, Windows, PanicOnlyWithCause
<1>3. Bells'
  BY Zenon DEF IInv, Bells
<1>4. Asked'
  BY DEF IInv, Asked, Outstanding
<1> QED
  BY <1>1, <1>2, <1>3, <1>4 DEF IInv

LEMMA IsrLeaveStep ==
  ASSUME IInv, Running, IsrLeave
  PROVE  IInv'
<1> USE DEF IsrLeave, clientVars, mainVars
<1>0. isrLink \in Link /\ irq'[isrLink] = FALSE /\ \A m \in Link : m # isrLink => irq'[m] = irq[m]
  BY Zenon DEF IInv, TypeInv
<1>1. TypeInv'
  BY Zenon DEF IInv, TypeInv
<1>2. Numbered' /\ QueueOrder' /\ LostOrder' /\ Windows' /\ PanicOnlyWithCause'
  BY DEF IInv, Numbered, QueueOrder, LostOrder, InFront, Windows, PanicOnlyWithCause
<1>3. Bells'
  BY <1>0 DEF IInv, Bells
<1>4. Asked'
  BY Zenon DEF IInv, Asked, Outstanding
<1> QED
  BY <1>1, <1>2, <1>3, <1>4 DEF IInv

\* The interrupt handler finds a whole request, as the doorbell was rung after it
\* was written.
LEMMA RequestIsThere ==
  ASSUME IInv, isr = "handle"
  PROVE  /\ isrLink \in Link /\ fifo[isrLink] \in Seq(Req) /\ fifo[isrLink] # <<>>
         /\ Head(fifo[isrLink]) \in Req /\ Head(fifo[isrLink]) = fifo[isrLink][1]
         /\ ~MboxIsEmpty(isrLink) /\ ~MboxReadTimesOut(isrLink)
<1>1. isrLink \in Link /\ fifo[isrLink] \in Seq(Req) /\ irq[isrLink]
  BY DEF IInv, TypeInv, Bells
<1>2. Len(fifo[isrLink]) \in Nat /\ Len(fifo[isrLink]) >= 1
  <2>1. Len(fifo[isrLink]) \in Nat
    BY <1>1, SeqLen
  <2>2. Len(fifo[isrLink]) >= (IF client[isrLink] = "ringing" THEN 1 ELSE 0) + 1
    BY <1>1 DEF IInv, Bells
  <2> QED
    BY <2>1, <2>2
<1>3. fifo[isrLink] # <<>>
  BY <1>2
<1> QED
  BY <1>1, <1>3, SeqTail DEF MboxIsEmpty, MboxReadTimesOut

\* A request h has been taken from the FIFO of L: it is in front of what is left, and
\* so is everything that was in front of h.
Taken(L, h) ==
  /\ fifo' \in [Link -> Seq(Req)] /\ Numbered'
  /\ h.link = L /\ InFront(h)'
  /\ \A r \in Req : InFront(r) => InFront(r)' /\ (r.link = L => r.n < h.n)
  /\ \A m \in Link : m # L => fifo'[m] = fifo[m]
  /\ Len(fifo'[L]) = Len(fifo[L]) - 1
  /\ \A i \in 1..Len(fifo'[L]) : i + 1 \in 1..Len(fifo[L]) /\ fifo'[L][i] = fifo[L][i + 1]

LEMMA TakeOrder ==
  ASSUME IInv, isr = "handle", NEW L, L = isrLink, NEW h, h = Head(fifo[L]),
         fifo' = [fifo EXCEPT ![L] = Tail(@)], UNCHANGED clientVars
  PROVE  Taken(L, h)
<1>1. L \in Link /\ fifo[L] \in Seq(Req) /\ fifo[L] # <<>> /\ h = fifo[L][1] /\ h \in Req
  BY RequestIsThere, Zenon
<1>2. fifo'[L] = Tail(fifo[L]) /\ \A m \in Link : m # L => fifo'[m] = fifo[m]
  BY <1>1, Zenon DEF IInv, TypeInv
<1>3. /\ fifo'[L] \in Seq(Req) /\ Len(fifo'[L]) = Len(fifo[L]) - 1
      /\ \A i \in 1..Len(fifo'[L]) : fifo'[L][i] = fifo[L][i + 1]
  <2> DEFINE f == fifo[L]
  <2>1. f \in Seq(Req) /\ f # <<>>
    BY <1>1
  <2> HIDE DEF f
  <2>2. /\ Tail(f) \in Seq(Req) /\ Len(Tail(f)) = Len(f) - 1
        /\ \A i \in 1..Len(Tail(f)) : Tail(f)[i] = f[i + 1]
    BY <2>1, SeqTail
  <2> QED
    BY <1>2, <2>2, Zenon DEF f
<1>4. Len(fifo[L]) \in Nat /\ Len(fifo[L]) >= 1
  BY <1>1, SeqLen, SeqEmpty
<1>5. \A i \in 1..Len(fifo'[L]) : i \in 1..Len(fifo[L]) /\ i + 1 \in 1..Len(fifo[L]) /\ i \in Nat
  BY <1>3, <1>4
<1>6. fifo' \in [Link -> Seq(Req)]
  BY <1>1, <1>2, <1>3 DEF IInv, TypeInv
<1>7. 1 \in 1..Len(fifo[L])
  BY <1>4
<1>8. h.link = L /\ h.n <= Len(posted[L]) /\ \A i \in 1..Len(fifo'[L]) : h.n < fifo'[L][i].n
  <2>1. \A i \in 1..Len(fifo'[L]) : h.n < fifo[L][i + 1].n
    <3>1. \A i \in 1..Len(fifo'[L]) : 1 < i + 1
      OBVIOUS
    <3> QED
      BY <1>1, <1>5, <1>7, <3>1 DEF IInv, Numbered
  <2> QED
    BY <1>1, <1>3, <1>7, <2>1 DEF IInv, Numbered
<1>9. InFront(h)'
  BY <1>8, Zenon DEF InFront, clientVars
<1>10. ASSUME NEW r \in Req, InFront(r) PROVE InFront(r)' /\ (r.link = L => r.n < h.n)
  <2>1. CASE r.link # L
    <3>1. r.link \in Link
      BY ReqType
    <3> QED
      BY <1>2, <1>10, <2>1, <3>1, Zenon DEF InFront, clientVars
  <2>2. CASE r.link = L
    BY <1>1, <1>3, <1>5, <1>7, <1>10, <2>2 DEF InFront, clientVars
  <2> QED
    BY <2>1, <2>2, Zenon
<1>11. Numbered'
  <2>1. ASSUME NEW m \in Link, m # L PROVE Numbered!(m)'
    BY <1>2, <2>1 DEF IInv, Numbered, clientVars
  <2>2. \A i \in 1..Len(fifo'[L]) : fifo'[L][i].link = L /\ fifo'[L][i].n <= Len(posted[L])
    BY <1>1, <1>3, <1>5 DEF IInv, Numbered
  <2>3. \A i, j \in 1..Len(fifo'[L]) : i < j => i + 1 < j + 1
    OBVIOUS
  <2>4. \A i, j \in 1..Len(fifo'[L]) : i < j => fifo'[L][i].n < fifo'[L][j].n
    BY <1>1, <1>3, <1>5, <2>3, SMTT(30) DEF IInv, Numbered
  <2>5. Numbered!(L)'
    BY <1>1, <2>2, <2>4, Zenon DEF IInv, Numbered, clientVars
  <2> QED
    BY <2>1, <2>5, ZenonT(60) DEF Numbered
<1> QED
  BY <1>2, <1>3, <1>5, <1>6, <1>8, <1>9, <1>10, <1>11, Zenon DEF Taken

\* The state after a request was taken, whatever became of it.
LEMMA TakenStep ==
  ASSUME IInv, isr = "handle", isr' = "clear", pc = "loop", NEW L, L = isrLink, NEW h, h = Head(fifo[L]),
         fifo' = [fifo EXCEPT ![L] = Tail(@)],
         \/ /\ queue' = Append(queue, h) /\ used' = used + 2 /\ UNCHANGED lost
         \/ /\ lost' = Append(lost, h) /\ used' = used + 1 /\ UNCHANGED queue,
         pc' = "loop" \/ (pc' = "panic" /\ h.kind = "misfit" /\ lost' = Append(lost, h)),
         UNCHANGED <<clientVars, isrLink, irq, masked, cur, last, window, slot, handled, shm>>
  PROVE  IInv'
<1>00. pc' \in {"loop", "panic"}
  BY Zenon
<1>0. \/ queue' = Append(queue, h) /\ used' = used + 2 /\ lost' = lost
      \/ queue' = queue /\ used' = used + 1 /\ lost' = Append(lost, h)
  BY Zenon
<1>1. L \in Link /\ fifo[L] \in Seq(Req) /\ fifo[L] # <<>> /\ h \in Req /\ h = fifo[L][1]
  BY RequestIsThere
<1>2. Taken(L, h)
  <2>1. UNCHANGED clientVars
    OBVIOUS
  <2> QED
    BY <2>1, TakeOrder, Zenon
<1> USE DEF clientVars, Taken
<1>3. queue \in Seq(Req) /\ Len(queue) \in Nat /\ \A i \in 1..Len(queue) : queue[i] \in Req
  BY SeqLen, Elements, Zenon DEF IInv, TypeInv
<1>4. /\ Append(queue, h) \in Seq(Req) /\ Len(Append(queue, h)) = Len(queue) + 1
      /\ \A i \in 1..Len(queue) : Append(queue, h)[i] = queue[i]
      /\ Append(queue, h)[Len(queue) + 1] = h
  BY <1>1, <1>3, SeqAppend
<1>5. queue' \in Seq(Req) /\ lost' \in Seq(Req) /\ used' \in Int
  <2>1. lost \in Seq(Req) /\ used \in Int
    BY Zenon DEF IInv, TypeInv
  <2> QED
    <3>1. CASE queue' = Append(queue, h) /\ used' = used + 2 /\ lost' = lost
      BY <1>4, <2>1, <3>1
    <3>2. CASE queue' = queue /\ used' = used + 1 /\ lost' = Append(lost, h)
      BY <1>1, <1>3, <2>1, <3>2, SeqAppend
    <3> QED
      BY <1>0, <3>1, <3>2, Zenon
<1>6. TypeInv'
  BY <1>00, <1>2, <1>5, Zenon DEF IInv, TypeInv
<1>8. LostOrder'
  <2>1. \A r \in Range(lost) : r \in Req /\ InFront(r)
    BY SeqRange, Zenon DEF IInv, TypeInv, LostOrder
  <2>2. \A r \in Range(lost) : InFront(r)'
    BY <1>2, <2>1, Zenon
  <2>3. Range(lost') = Range(lost) \/ Range(lost') = Range(lost) \cup {h}
    <3>1. lost \in Seq(Req)
      BY Zenon DEF IInv, TypeInv
    <3>2. \A x \in Req : Range(Append(lost, x)) = Range(lost) \cup {x}
      BY <3>1, SeqRange
    <3> QED
      BY <1>0, <1>1, <3>2, Zenon
  <2> QED
    BY <1>2, <2>2, <2>3, Zenon DEF LostOrder
<1>9. QueueOrder'
  <2>1. \A i \in 1..Len(queue) : InFront(queue[i]) /\ queue[i] \in Req
    BY <1>3, Zenon DEF IInv, QueueOrder
  <2>2. CASE queue' = queue
    <3>1. ASSUME NEW i \in 1..Len(queue), NEW q, q = queue[i] PROVE InFront(q)'
      BY <1>2, <2>1, <3>1, Zenon
    <3>2. (\A i \in 1..Len(queue) : InFront(queue[i]))'
      BY <2>2, <3>1, Zenon DEF InFront
    <3> QED
      BY <1>00, <2>2, <3>2, Zenon DEF IInv, QueueOrder
  <2>3. CASE queue' = Append(queue, h)
    <3>1. \A i \in 1..Len(queue') : i \in 1..Len(queue) \/ i = Len(queue) + 1
      BY <1>3, <1>4, <2>3
    <3>2. \A i, j \in 1..Len(queue') : i < j => i \in 1..Len(queue)
      BY <1>3, <1>4, <2>3
    <3>3. (\A i \in 1..Len(queue) : InFront(queue[i]))'
      <4>1. ASSUME NEW i \in 1..Len(queue'), NEW q, q = queue'[i] PROVE InFront(q)'
        <5>1. CASE i \in 1..Len(queue)
          <6>1. q = queue[i]
            BY <1>4, <2>3, <4>1, <5>1, Zenon
          <6> QED
            BY <1>2, <2>1, <5>1, <6>1, Zenon
        <5>2. CASE i = Len(queue) + 1
          BY <1>2, <1>4, <2>3, <4>1, <5>2, Zenon
        <5> QED
          BY <3>1, <5>1, <5>2
      <4> QED
        BY <4>1, Zenon DEF InFront
    <3>4. \A i, j \in 1..Len(queue') :
             i < j /\ queue'[i].link = queue'[j].link => queue'[i].n < queue'[j].n
      BY <1>2, <1>4, <2>1, <2>3, <3>1, <3>2, SMTT(40) DEF IInv, QueueOrder
    <3> QED
      BY <1>00, <3>3, <3>4, Zenon DEF QueueOrder
  <2> QED
    BY <1>0, <2>2, <2>3
<1>10. Bells'
  <2>1. \A m \in Link : Len(fifo[m]) \in Nat
    BY SeqLen, Zenon DEF IInv, TypeInv
  <2> QED
    <3>1. \A m \in Link : m # L => fifo'[m] = fifo[m]
      BY <1>2, Zenon
    <3>2. Len(fifo'[L]) = Len(fifo[L]) - 1
      BY <1>2, Zenon
    <3>3. irq[L] /\ client' = client /\ irq' = irq /\ isrLink' = isrLink
      BY Zenon DEF IInv, Bells
    <3> HIDE DEF Taken
    <3> QED
      BY <1>1, <2>1, <3>1, <3>2, <3>3 DEF IInv, Bells
<1>11. Windows' /\ PanicOnlyWithCause'
  <2>1. Windows'
    BY <1>00, Zenon DEF IInv, Windows
  <2>2. CASE pc' = "panic"
    <3>1. h.kind = "misfit" /\ lost' = Append(lost, h) /\ lost \in Seq(Req)
      BY <2>2, Zenon DEF IInv, TypeInv
    <3>2. lost' # <<>> /\ lost'[Len(lost')] = h
      BY <1>1, <3>1, SeqAppend
    <3> QED
      BY <2>1, <3>1, <3>2, Zenon DEF PanicOnlyWithCause
  <2> QED
    BY <1>00, <2>1, <2>2, Zenon DEF PanicOnlyWithCause
<1>13. Asked'
  <2>1. \A q \in Req : Outstanding(q)' => Outstanding(q)
    <3>1. Outstanding(h)
      <4>1. 1 \in 1..Len(fifo[L])
        BY <1>1, SeqEmpty
      <4> QED
        BY <1>1, <4>1, Zenon DEF Outstanding
    <3>2. ASSUME NEW q, NEW i \in 1..Len(queue'), q = queue'[i] PROVE Outstanding(q)
      <4>1. CASE queue' = queue
        BY <3>2, <4>1, Zenon DEF Outstanding
      <4>2. CASE queue' = Append(queue, h)
        <5>1. i \in 1..Len(queue) \/ i = Len(queue) + 1
          BY <1>3, <1>4, <4>2
        <5>2. q = h \/ \E j \in 1..Len(queue) : q = queue[j]
          BY <1>4, <3>2, <4>2, <5>1, Zenon
        <5> QED
          BY <3>1, <5>2, Zenon DEF Outstanding
      <4> QED
        BY <1>0, <4>1, <4>2, Zenon
    <3>3. ASSUME NEW q, NEW m \in Link, NEW i \in 1..Len(fifo'[m]), q = fifo'[m][i] PROVE Outstanding(q)
      BY <1>1, <1>2, <3>3, ZenonT(60) DEF Outstanding
    <3>4. ASSUME NEW q \in Req, Outstanding(q)' PROVE Outstanding(q)
      <4>1. CASE \E m \in Link : \E i \in 1..Len(fifo'[m]) : q = fifo'[m][i]
        BY <3>3, <4>1, Zenon
      <4>2. CASE \E i \in 1..Len(queue') : q = queue'[i]
        BY <3>2, <4>2, Zenon
      <4> QED
        BY <1>00, <3>4, <4>1, <4>2, Zenon DEF Outstanding
    <3> QED
      BY <3>4, Zenon
  <2> QED
    BY <1>00, <2>1, Zenon DEF IInv, Asked
<1> QED
  BY <1>2, <1>6, <1>8, <1>9, <1>10, <1>11, <1>13, Zenon DEF IInv

LEMMA IsrHandleStep ==
  ASSUME IInv, Running, IsrHandle
  PROVE  IInv'
<1>1. isr = "handle" /\ isr' = "clear" /\ isrLink \in Link /\ ~MboxIsEmpty(isrLink) /\ ~MboxReadTimesOut(isrLink)
  BY RequestIsThere, Zenon DEF IsrHandle
<1>2. pc = "loop"
  BY <1>1, Zenon DEF IInv, TypeInv, Running
<1>3. CASE used = Blocks
  <2>1. /\ pc' = "panic" /\ isr' = "clear"
        /\ UNCHANGED <<clientVars, fifo, queue, used, lost, isrLink, irq, masked, cur, last, window, slot, handled, shm>>
    BY <1>1, <1>3, Zenon DEF IsrHandle
  <2> USE DEF clientVars
  <2>2. TypeInv'
    BY <1>1, <2>1, Zenon DEF IInv, TypeInv
  <2>3. Numbered' /\ QueueOrder' /\ LostOrder' /\ Windows' /\ PanicOnlyWithCause'
    BY <1>3, <2>1, ZenonT(30) DEF IInv, Numbered, QueueOrder, LostOrder, InFront, Windows, PanicOnlyWithCause
  <2>4. Bells'
    <3>1. \A m \in Link : Len(fifo[m]) \in Nat
      BY SeqLen, Zenon DEF IInv, TypeInv
    <3> QED
      <4>1. \A m \in Link :
              Len(fifo[m]) >= (IF client[m] = "ringing" THEN 1 ELSE 0)
                                + (IF irq[m] /\ ~(isr = "clear" /\ isrLink = m) THEN 1 ELSE 0)
        BY Zenon DEF IInv, Bells
      <4>2. UNCHANGED <<fifo, client, irq, isrLink>> /\ isr # "clear"
        BY <1>1, <2>1
      <4> QED
        BY <1>1, <2>1, <3>1, <4>1, <4>2 DEF Bells
  <2>5. Asked'
    BY <1>2, <2>1, Zenon DEF IInv, Asked, Outstanding
  <2> QED
    BY <2>2, <2>3, <2>4, <2>5 DEF IInv
<1>4. CASE used # Blocks
  <2> DEFINE h == Head(fifo[isrLink])
  <2>1. fifo' = [fifo EXCEPT ![isrLink] = Tail(@)]
        /\ UNCHANGED <<clientVars, isrLink, irq, masked, cur, last, window, slot, handled, shm>>
    BY <1>1, <1>4, Zenon DEF IsrHandle
  <2>2. \/ /\ queue' = Append(queue, h) /\ used' = used + 2 /\ UNCHANGED lost
        \/ /\ lost' = Append(lost, h) /\ used' = used + 1 /\ UNCHANGED queue
    BY <1>1, <1>4, Zenon DEF IsrHandle, QueuePush
  <2>3. pc' = "loop" \/ (pc' = "panic" /\ h.kind = "misfit" /\ lost' = Append(lost, h))
    BY <1>1, <1>2, <1>4, Zenon DEF IsrHandle
  <2> QED
    BY <1>1, <1>2, <2>1, <2>2, <2>3, TakenStep, Zenon
<1> QED
  BY <1>3, <1>4
-----------------------------------------------------------------------------
(***************************************************************************)
(* The main loop.                                                          *)
(***************************************************************************)
LEMMA CriticalSectionEnterStep ==
  ASSUME IInv, CriticalSectionEnter
  PROVE  IInv'
<1> USE DEF CriticalSectionEnter, Main, clientVars, isrVars
<1>1. TypeInv'
  BY ZenonT(30) DEF IInv, TypeInv
<1>2. Numbered' /\ QueueOrder' /\ LostOrder' /\ Windows' /\ PanicOnlyWithCause' /\ Bells'
  BY ZenonT(30) DEF IInv, Numbered, QueueOrder, LostOrder, InFront, Windows, PanicOnlyWithCause, Bells
<1>3. Asked'
  BY Zenon DEF IInv, Asked, Outstanding
<1> QED
  BY <1>1, <1>2, <1>3, Zenon DEF IInv

LEMMA QueuePopStep ==
  ASSUME IInv, QueuePop
  PROVE  IInv'
<1> USE DEF QueuePop, Main, clientVars, isrVars
<1>1. TypeInv'
  <2>1. queue # <<>> => Head(queue) \in Req
    BY SeqTail, Zenon DEF IInv, TypeInv
  <2> QED
    BY <2>1, Zenon DEF IInv, TypeInv
<1>2. Numbered' /\ QueueOrder' /\ LostOrder' /\ Windows' /\ PanicOnlyWithCause' /\ Bells'
  BY ZenonT(60) DEF IInv, Numbered, QueueOrder, LostOrder, InFront, Windows, PanicOnlyWithCause, Bells
<1>3. Asked'
  BY Zenon DEF IInv, Asked, Outstanding
<1> QED
  BY <1>1, <1>2, <1>3 DEF IInv

LEMMA QueueUnlinkStep ==
  ASSUME IInv, QueueUnlink
  PROVE  IInv'
<1> USE DEF QueueUnlink, Main, clientVars, isrVars
<1>1. queue \in Seq(Req) /\ queue # <<>> /\ cur = Head(queue) /\ cur = queue[1] /\ cur \in Req
  BY DEF IInv, TypeInv
<1>2. Len(queue) \in Nat /\ Len(queue) >= 1
  BY <1>1, SeqLen, SeqEmpty
<1>3. /\ Tail(queue) \in Seq(Req) /\ Len(Tail(queue)) = Len(queue) - 1
      /\ \A i \in 1..Len(Tail(queue)) : Tail(queue)[i] = queue[i + 1]
  BY <1>1, SeqTail, Zenon
<1>4. queue' = Tail(queue)
  <2>1. last = (Len(queue) = 1)
    BY Zenon DEF IInv, TypeInv
  <2>2. Len(queue) = 1 => Tail(queue) = <<>>
    <3>1. Tail(queue) # <<>> => Len(Tail(queue)) \in Nat \ {0}
      BY <1>3, SeqEmpty, Zenon
    <3> QED
      BY <1>2, <1>3, <3>1, SMTT(40)
  <2> QED
    BY <2>1, <2>2, Zenon
<1>5. \A i \in 1..Len(queue') : i + 1 \in 1..Len(queue) /\ queue'[i] = queue[i + 1] /\ 1 < i + 1
  BY <1>2, <1>3, <1>4
<1>6. TypeInv'
  BY <1>1, <1>3, <1>4, SMTT(40) DEF IInv, TypeInv
<1>7. Numbered' /\ LostOrder' /\ Windows' /\ PanicOnlyWithCause' /\ Bells'
  BY Zenon DEF IInv, Numbered, LostOrder, InFront, Windows, PanicOnlyWithCause, Bells
<1>8. QueueOrder'
  <2>1. 1 \in 1..Len(queue)
    BY <1>2
  <2>2. InFront(cur)'
    BY <1>1, <2>1, Zenon DEF IInv, QueueOrder, InFront
  <2>3. (\A i \in 1..Len(queue) : InFront(queue[i]))'
    <3> SUFFICES ASSUME NEW i \in 1..Len(queue') PROVE InFront(queue[i])'
      BY Zenon
    <3>1. queue'[i] = queue[i + 1] /\ InFront(queue[i + 1])
      BY <1>5, Zenon DEF IInv, QueueOrder
    <3> QED
      BY <3>1, Zenon DEF InFront
  <2>4. \A i, j \in 1..Len(queue') : i < j => i + 1 < j + 1
    OBVIOUS
  <2>5. \A i, j \in 1..Len(queue') : i < j /\ queue'[i].link = queue'[j].link => queue'[i].n < queue'[j].n
    BY <1>5, <2>4 DEF IInv, QueueOrder
  <2>6. \A i \in 1..Len(queue') : queue'[i].link = cur.link => cur.n < queue'[i].n
    BY <1>1, <1>5, <2>1, ZenonT(60) DEF IInv, QueueOrder
  <2> QED
    BY <2>2, <2>3, <2>5, <2>6, Zenon DEF QueueOrder
<1>10. Asked'
  <2>1. 1 \in 1..Len(queue)
    BY <1>2
  <2>2. \A q \in Req : Outstanding(q)' => Outstanding(q)
    BY <1>1, <1>5, <2>1, ZenonT(60) DEF Outstanding
  <2> QED
    BY <2>2, Zenon DEF IInv, Asked
<1> QED
  BY <1>6, <1>7, <1>8, <1>10, Zenon DEF IInv

LEMMA ServeStep ==
  ASSUME IInv, Serve
  PROVE  IInv'
<1> USE DEF Serve, Main, clientVars, isrVars
<1>1. cur \in Req /\ cur.link \in Link /\ cur.n \in Nat /\ handled[cur.link] \in Seq(Req) /\ window = {}
  BY ReqType, Zenon DEF IInv, TypeInv, Windows
<1>2. ~(Slot \subseteq window)
  BY <1>1, IpcAssumption
<1>3. /\ \A m \in Link : m # cur.link => handled'[m] = handled[m]
      /\ handled'[cur.link] = Append(handled[cur.link], cur)
      /\ handled'[cur.link] \in Seq(Req)
  BY <1>1, SeqAppend, ZenonT(60) DEF IInv, TypeInv
<1>4. /\ Len(handled[cur.link]) \in Nat /\ Len(handled'[cur.link]) = Len(handled[cur.link]) + 1
      /\ \A i \in 1..Len(handled[cur.link]) : handled'[cur.link][i] = handled[cur.link][i]
      /\ handled'[cur.link][Len(handled[cur.link]) + 1] = cur
      /\ DOMAIN handled[cur.link] = 1..Len(handled[cur.link])
      /\ DOMAIN handled'[cur.link] = 1..Len(handled'[cur.link])
  BY <1>1, <1>3, SeqAppend, SeqLen
<1> DEFINE Quiet == cur.kind \notin Asking \/ cur.kind = "fatal"
<1>5. /\ cur.kind \notin Asking => pc' = "free"
      /\ cur.kind \in Asking /\ cur.kind = "fatal" => pc' = "panic"
      /\ Quiet => shm' = shm /\ window' = {}
      /\ ~Quiet => /\ pc' = "copied" /\ window' = {slot'}
                   /\ \E v \in RespParam(cur) : shm' = [shm EXCEPT ![cur.link] = [@ EXCEPT !.param = v]]
  <2>1. CASE Quiet
    BY <1>1, <2>1, Zenon
  <2>2. CASE ~Quiet
    BY <1>1, <1>2, <2>2, Zenon
  <2> QED
    BY <2>1, <2>2, Zenon
<1>6. /\ shm' \in [Link -> [param : Nat, state : {"busy", "complete"}]]
      /\ \A m \in Link : shm'[m].state = shm[m].state /\ (m # cur.link => shm'[m] = shm[m])
      /\ cur.kind = "ask" => shm'[cur.link].param = cur.n
      /\ Quiet => shm' = shm
  <2>1. CASE Quiet
    BY <1>5, <2>1, Zenon DEF IInv, TypeInv, Asking
  <2>2. CASE ~Quiet
    <3>1. shm \in [Link -> [param : Nat, state : {"busy", "complete"}]]
      BY Zenon DEF IInv, TypeInv
    <3>2. PICK v \in RespParam(cur) : shm' = [shm EXCEPT ![cur.link] = [@ EXCEPT !.param = v]]
      BY <1>5, <2>2, Zenon
    <3>3. v \in Nat /\ (cur.kind = "ask" => v = cur.n)
      BY <1>1, IpcAssumption DEF RespParam
    <3>4. v \in Nat /\ cur.link \in Link
      BY <1>1, <3>3
    <3>5. shm' \in [Link -> [param : Nat, state : {"busy", "complete"}]]
      BY <3>1, <3>2, <3>4, Zenon
    <3>6. /\ \A m \in Link : m # cur.link => shm'[m] = shm[m]
          /\ shm'[cur.link] = [shm[cur.link] EXCEPT !.param = v]
      BY <3>1, <3>2, <3>4, Zenon
    <3>7. shm[cur.link] \in [param : Nat, state : {"busy", "complete"}]
      BY <3>1, <3>4, Zenon
    <3>8. shm'[cur.link].state = shm[cur.link].state /\ shm'[cur.link].param = v
      BY <3>6, <3>7, Zenon
    <3> QED
      BY <2>2, <3>3, <3>5, <3>6, <3>8, Zenon
  <2> QED
    BY <2>1, <2>2, Zenon
<1>55. pc' \in {"free", "panic", "copied"} /\ (pc' = "panic" => cur.kind = "fatal")
       /\ (pc' = "copied" => ~Quiet) /\ cur' = cur
  BY <1>5, Zenon
<1>7. TypeInv'
  <2>1. handled' \in [Link -> Seq(Req)]
    BY <1>1, <1>3, Zenon DEF IInv, TypeInv
  <2> QED
    BY <1>55, <1>6, <2>1, Zenon DEF IInv, TypeInv
<1>8. Numbered' /\ LostOrder' /\ Bells'
  BY Zenon DEF IInv, Numbered, LostOrder, InFront, Bells
<1>9. QueueOrder'
  BY Zenon DEF IInv, QueueOrder, InFront
<1>10. Windows' /\ PanicOnlyWithCause'
  BY <1>5, <1>55, Zenon DEF Windows, PanicOnlyWithCause
<1>12. Asked'
  <2>1. \A q \in Req : Outstanding(q)' => Outstanding(q)
    BY DEF Outstanding
  <2>2. Outstanding(cur)
    BY DEF Outstanding
  <2>3. Asked!1' /\ Asked!2'
    BY <1>6 DEF IInv, Asked
  <2>4. Asked!3'
    BY <1>6, <2>1, ReqType DEF IInv, Asked
  <2>5. Asked!4'
    <3>1. Len(handled[cur.link]) + 1 \in DOMAIN handled'[cur.link]
      BY <1>4
    <3> QED
      BY <1>4, <1>55, <1>6, <3>1, Zenon
  <2>6. ASSUME NEW m \in Link, client[m] \in {"ringing", "waiting"}, writing[m].kind \in Asking, shm'[m].state = "complete"
        PROVE  (writing[m].kind = "ask" => shm'[m].param = writing[m].n) /\ \E i \in DOMAIN handled'[m] : handled'[m][i] = writing[m]
    <3>1. shm[m].state = "complete"
      BY <1>6, <2>6, Zenon
    <3>2. (writing[m].kind = "ask" => shm[m].param = writing[m].n)
          /\ \E i \in DOMAIN handled[m] : handled[m][i] = writing[m]
      BY <2>6, <3>1, Zenon DEF IInv, Asked
    <3>3. m # cur.link \/ cur.kind \notin Asking
      BY <1>1, <2>2, <3>1, Zenon DEF IInv, Asked
    <3>4. \E i \in DOMAIN handled'[m] : handled'[m][i] = writing[m]
      <4>1. CASE m # cur.link
        BY <1>3, <3>2, <4>1
      <4>2. CASE m = cur.link
        <5>1. \A i \in DOMAIN handled[m] : i \in DOMAIN handled'[m] /\ handled'[m][i] = handled[m][i]
          BY <1>4, <4>2
        <5> QED
          BY <3>2, <5>1, Zenon
      <4> QED
        BY <4>1, <4>2, Zenon
    <3> QED
      BY <1>6, <3>2, <3>3, <3>4, Zenon
  <2> QED
    BY <2>3, <2>4, <2>5, <2>6 DEF Asked
<1> QED
  BY <1>7, <1>8, <1>9, <1>10, <1>12 DEF IInv

LEMMA CompleteStep ==
  ASSUME IInv, Complete
  PROVE  IInv'
<1> USE DEF Complete, Main, clientVars, isrVars
<1>1. cur \in Req /\ cur.link \in Link /\ cur.kind \in Asking
  BY ReqType DEF IInv, TypeInv, Asked
<1>2. /\ shm' \in [Link -> [param : Nat, state : {"busy", "complete"}]]
      /\ \A m \in Link : shm'[m].param = shm[m].param /\ (m # cur.link => shm'[m] = shm[m])
      /\ shm'[cur.link].state = "complete"
  BY <1>1, ZenonT(60) DEF IInv, TypeInv
<1>3. TypeInv'
  BY <1>2, Zenon DEF IInv, TypeInv
<1>4. Numbered' /\ QueueOrder' /\ LostOrder' /\ Bells' /\ Windows' /\ PanicOnlyWithCause'
  BY DEF IInv, Numbered, QueueOrder, LostOrder, InFront, Bells, Windows, PanicOnlyWithCause
<1>5. Asked'
  <2>1. Outstanding(cur)
    BY DEF Outstanding
  <2>2. client[cur.link] \in {"ringing", "waiting"} /\ cur = writing[cur.link]
    BY <1>1, <2>1 DEF IInv, Asked
  <2>3. ASSUME NEW q \in Req, Outstanding(q)', q.kind \in Asking PROVE q.link # cur.link /\ Outstanding(q)
    <3>1. Outstanding(q)
      BY <2>3, Zenon DEF Outstanding
    <3>2. q.link = cur.link => q = cur
      BY <2>2, <2>3, <3>1, Zenon DEF IInv, Asked
    <3>3. cur.n \in Nat
      BY <1>1, ReqType
    <3>4. \A m \in Link : \A i \in 1..Len(fifo[m]) : fifo[m][i] # cur
      BY <1>1, <3>3 DEF IInv, QueueOrder, InFront, Numbered
    <3>5. \A i \in 1..Len(queue) : queue[i] # cur
      BY <3>3 DEF IInv, QueueOrder
    <3> QED
      BY <2>3, <3>1, <3>2, <3>4, <3>5 DEF Outstanding
  <2>4. Asked!1' /\ Asked!2'
    BY <1>1, <1>2, <2>2, Zenon DEF IInv, Asked
  <2>5. Asked!3'
    BY <1>2, <2>3, ReqType, Zenon DEF IInv, Asked
  <2>6. Asked!4' /\ Asked!5'
    BY <1>1, <1>2, <2>2 DEF IInv, Asked
  <2> QED
    BY <2>4, <2>5, <2>6 DEF Asked
<1> QED
  BY <1>3, <1>4, <1>5 DEF IInv

LEMMA IommuUnmapStep ==
  ASSUME IInv, IommuUnmap
  PROVE  IInv'
<1> USE DEF IommuUnmap, Main, clientVars, isrVars
<1>1. window' = {}
  BY Zenon DEF IInv, Windows
<1>2. TypeInv'
  BY Zenon DEF IInv, TypeInv
<1>3. Numbered' /\ QueueOrder' /\ LostOrder' /\ Bells' /\ Windows' /\ PanicOnlyWithCause'
  BY <1>1, ZenonT(30) DEF IInv, Numbered, QueueOrder, LostOrder, InFront, Bells, Windows, PanicOnlyWithCause
<1>4. Asked'
  BY Zenon DEF IInv, Asked, Outstanding
<1> QED
  BY <1>2, <1>3, <1>4, Zenon DEF IInv

LEMMA FreeStep ==
  ASSUME IInv, Free
  PROVE  IInv'
<1> USE DEF Free, Main, clientVars, isrVars
<1>1. TypeInv'
  BY DEF IInv, TypeInv
<1>2. Numbered' /\ QueueOrder' /\ LostOrder' /\ Bells' /\ Windows' /\ PanicOnlyWithCause'
  BY ZenonT(60) DEF IInv, Numbered, QueueOrder, LostOrder, InFront, Bells, Windows, PanicOnlyWithCause
<1>4. Asked'
  BY Zenon DEF IInv, Asked, Outstanding
<1> QED
  BY <1>1, <1>2, <1>4, Zenon DEF IInv

LEMMA CriticalSectionExitStep ==
  ASSUME IInv, CriticalSectionExit
  PROVE  IInv'
<1> USE DEF CriticalSectionExit, Main, clientVars, isrVars
<1>1. TypeInv'
  BY Zenon DEF IInv, TypeInv
<1>2. Numbered' /\ QueueOrder' /\ LostOrder' /\ Bells' /\ Windows' /\ PanicOnlyWithCause'
  BY ZenonT(30) DEF IInv, Numbered, QueueOrder, LostOrder, InFront, Bells, Windows, PanicOnlyWithCause
<1>3. Asked'
  BY Zenon DEF IInv, Asked, Outstanding
<1> QED
  BY <1>1, <1>2, <1>3, Zenon DEF IInv
-----------------------------------------------------------------------------
LEMMA StepInv == IInv /\ [Next]_vars => IInv'
<1> SUFFICES ASSUME IInv, [Next]_vars PROVE IInv'
  OBVIOUS
<1>1. CASE ClientSteps
  BY <1>1, WriteStep, WriteRestStep, RingStep, CollectStep DEF ClientSteps
<1>2. CASE Running /\ ((\E l \in Link : IsrEnter(l)) \/ IsrSteps)
  BY <1>2, IsrEnterStep, IsrHandleStep, IsrLeaveStep, Zenon DEF IsrSteps
<1>3. CASE Running /\ MainSteps
  BY <1>3, CriticalSectionEnterStep, QueuePopStep, QueueUnlinkStep, ServeStep, CompleteStep,
     IommuUnmapStep, FreeStep, CriticalSectionExitStep DEF MainSteps
<1>4. CASE UNCHANGED vars
  <2> USE <1>4 DEF vars, clientVars, isrVars, mainVars
  <2>1. TypeInv' /\ Numbered' /\ QueueOrder' /\ LostOrder' /\ Bells'
    <3>1. TypeInv'
      BY ZenonT(30) DEF IInv, TypeInv
    <3>2. Numbered' /\ QueueOrder' /\ LostOrder'
      BY ZenonT(30) DEF IInv, Numbered, QueueOrder, LostOrder, InFront
    <3>3. Bells'
      BY ZenonT(30) DEF IInv, Bells
    <3> QED
      BY <3>1, <3>2, <3>3, Zenon
  <2>2. Windows' /\ PanicOnlyWithCause'
    BY Zenon DEF IInv, Windows, PanicOnlyWithCause
  <2>3. Asked'
    BY Zenon DEF IInv, Asked, Outstanding
  <2> QED
    BY <2>1, <2>2, <2>3, Zenon DEF IInv
<1> QED
  BY <1>1, <1>2, <1>3, <1>4 DEF Next

\* The inductive invariant of the services.
THEOREM IpcInvariant == Spec => []IInv
<1>1. Init => IInv
  BY InitInv
<1>2. IInv /\ [Next]_vars => IInv'
  BY StepInv
<1> QED
  BY <1>1, <1>2, PTL DEF Spec

\* For any number of clients that mix requests with and without response, a client
\* that finds its response complete knows that its own request was executed, and finds
\* the result of that request if the service has one (risc0_ipc_resp).
THEOREM AnswerIsMineInvariant == Spec => []AnswerIsMine
<1>1. IInv => AnswerIsMine
  BY Zenon DEF IInv, Asked, AnswerIsMine
<1> QED
  BY <1>1, IpcInvariant, PTL

\* Whatever the rate of doorbells, mbox_read finds every request complete and an IOMMU
\* window is free for each response: SBL-S3 panics only when the heap is used up, for a
\* request of a wrong length, or for an address in the first 4 GB (panic_handler).
THEOREM PanicOnlyWithCauseInvariant == Spec => []PanicOnlyWithCause
<1>1. IInv => PanicOnlyWithCause
  BY DEF IInv
<1> QED
  BY <1>1, IpcInvariant, PTL
-----------------------------------------------------------------------------
(***************************************************************************)
(* Where the requests are.  Every request that was posted is executed, at  *)
(* work, queued or in the FIFO of its client, or else it was dropped, and  *)
(* those executed are in front of all others of their client.              *)
(***************************************************************************)
Posted(r) == r.n \in 1..Len(posted[r.link]) /\ posted[r.link][r.n] = r

Stationed(r) ==
  \/ \E i \in 1..Len(handled[r.link]) : r = handled[r.link][i]
  \/ pc = "serve" /\ r = cur
  \/ \E i \in 1..Len(queue) : r = queue[i]
  \/ \E i \in 1..Len(fifo[r.link]) : r = fifo[r.link][i]

PostedInv ==
  \A l \in Link : \A n \in 1..Len(posted[l]) : posted[l][n].n = n /\ posted[l][n].link = l

StationInv == \A r \in Req : Stationed(r) <=> Posted(r) /\ r \notin Range(lost)

Executed(r) ==
  /\ InFront(r)
  /\ pc = "serve" /\ cur.link = r.link => r.n < cur.n
  /\ \A j \in 1..Len(queue) : queue[j].link = r.link => r.n < queue[j].n

HandledInv ==
  \A l \in Link :
    /\ \A i \in 1..Len(handled[l]) : handled[l][i].link = l /\ Executed(handled[l][i])
    /\ \A i, j \in 1..Len(handled[l]) : i < j => handled[l][i].n < handled[l][j].n

FlowInv == PostedInv /\ StationInv /\ HandledInv

LEMMA InitFlow == Init => FlowInv
<1> SUFFICES ASSUME Init PROVE FlowInv
  OBVIOUS
<1>1. /\ posted = [l \in Link |-> <<>>] /\ handled = [l \in Link |-> <<>>] /\ fifo = [l \in Link |-> <<>>]
      /\ queue = <<>> /\ pc = "loop"
  BY Zenon DEF Init
<1>2. \A r \in Req : r.link \in Link
  BY ReqType
<1> QED
  BY <1>1, <1>2 DEF FlowInv, PostedInv, StationInv, HandledInv, Stationed, Posted

\* The steps that move no request.
LEMMA SameFlow ==
  ASSUME IInv, FlowInv, UNCHANGED <<posted, handled, queue, fifo, lost>>,
         pc = "serve" \/ pc' = "serve" => UNCHANGED <<pc, cur>>
  PROVE  FlowInv'
<1>1. \A r : Stationed(r)' <=> Stationed(r)
  BY Zenon DEF Stationed
<1>2. \A r : Posted(r)' <=> Posted(r)
  BY DEF Posted
<1>3. \A r : Executed(r) => Executed(r)'
  BY Zenon DEF Executed, InFront
<1> QED
  BY <1>1, <1>2, <1>3, Zenon DEF FlowInv, PostedInv, StationInv, HandledInv

LEMMA WriteRestFlow ==
  ASSUME IInv, FlowInv, NEW l \in Link, WriteRest(l)
  PROVE  FlowInv'
<1> DEFINE w == writing[l]
<1>1. /\ w \in Req /\ w.link = l /\ w.n = Len(posted[l]) + 1
      /\ fifo[l] \in Seq(Req) /\ posted[l] \in Seq(Req)
  <2>1. client[l] = "writing" /\ client[l] # "idle"
    BY Zenon DEF WriteRest
  <2>2. w \in Req /\ w.link = l /\ w.n = Len(posted[l]) + 1
    BY <2>1, Zenon DEF IInv, Numbered
  <2>3. fifo[l] \in Seq(Req) /\ posted[l] \in Seq(Req)
    BY Zenon DEF IInv, TypeInv
  <2> QED
    BY <2>2, <2>3, Zenon
<1>2. /\ \A m \in Link : m # l => fifo'[m] = fifo[m] /\ posted'[m] = posted[m]
      /\ fifo'[l] = Append(fifo[l], w) /\ posted'[l] = Append(posted[l], w)
      /\ UNCHANGED <<handled, queue, lost, pc, cur>>
  BY Zenon DEF IInv, TypeInv, WriteRest, isrVars, mainVars
<1>3. Len(fifo[l]) \in Nat /\ Len(posted[l]) \in Nat
  BY <1>1, SeqLen, Zenon
<1> HIDE DEF w
<1>4. /\ Len(fifo'[l]) = Len(fifo[l]) + 1 /\ \A i \in 1..Len(fifo[l]) : fifo'[l][i] = fifo[l][i]
      /\ fifo'[l][Len(fifo[l]) + 1] = w
  <2>1. w \in Req /\ fifo[l] \in Seq(Req) /\ fifo'[l] = Append(fifo[l], w)
    BY <1>1, <1>2, Zenon
  <2>2. /\ Len(Append(fifo[l], w)) = Len(fifo[l]) + 1 /\ Append(fifo[l], w)[Len(fifo[l]) + 1] = w
        /\ \A i \in 1..Len(fifo[l]) : Append(fifo[l], w)[i] = fifo[l][i]
    BY <2>1, SeqAppend, SMTT(30)
  <2> QED
    BY <2>1, <2>2, Zenon
<1>5. /\ Len(posted'[l]) = Len(posted[l]) + 1 /\ \A i \in 1..Len(posted[l]) : posted'[l][i] = posted[l][i]
      /\ posted'[l][Len(posted[l]) + 1] = w
  <2>1. w \in Req /\ posted[l] \in Seq(Req) /\ posted'[l] = Append(posted[l], w)
    BY <1>1, <1>2, Zenon
  <2>2. /\ Len(Append(posted[l], w)) = Len(posted[l]) + 1 /\ Append(posted[l], w)[Len(posted[l]) + 1] = w
        /\ \A i \in 1..Len(posted[l]) : Append(posted[l], w)[i] = posted[l][i]
    BY <2>1, SeqAppend, SMTT(30)
  <2> QED
    BY <2>1, <2>2, Zenon
<1>6. /\ \A i \in 1..Len(fifo'[l]) : i \in 1..Len(fifo[l]) \/ i = Len(fifo[l]) + 1
      /\ \A i \in 1..Len(posted'[l]) : i \in 1..Len(posted[l]) \/ i = Len(posted[l]) + 1
      /\ \A i \in 1..Len(fifo[l]) : i \in 1..Len(fifo'[l])
      /\ \A i \in 1..Len(posted[l]) : i \in 1..Len(posted'[l])
      /\ Len(fifo[l]) + 1 \in 1..Len(fifo'[l]) /\ Len(posted[l]) + 1 \in 1..Len(posted'[l])
  BY <1>3, <1>4, <1>5, SMTT(30)
<1>7. ASSUME NEW r \in Req
      PROVE  /\ Stationed(r)' <=> Stationed(r) \/ r = w
             /\ Posted(r)' <=> Posted(r) \/ r = w
  <2>1. r.link \in Link /\ r.n \in Nat
    BY ReqType, SMTT(30)
  <2>2. CASE r.link # l
    BY <1>1, <1>2, <2>1, <2>2, Zenon DEF Stationed, Posted
  <2>3. CASE r.link = l
    <3>1. (\E i \in 1..Len(fifo'[l]) : r = fifo'[l][i]) <=> (\E i \in 1..Len(fifo[l]) : r = fifo[l][i]) \/ r = w
      BY <1>4, <1>6, Zenon
    <3>2. Stationed(r)' <=> Stationed(r) \/ r = w
      BY <1>2, <2>3, <3>1, Zenon DEF Stationed
    <3>3. Posted(r)' <=> Posted(r) \/ r = w
      BY <1>1, <1>5, <1>6, <2>3, Zenon DEF Posted
    <3> QED
      BY <3>2, <3>3, Zenon
  <2> QED
    BY <2>2, <2>3, Zenon
<1>8. w \notin Range(lost)
  BY <1>1, <1>3 DEF IInv, LostOrder, InFront
<1>9. StationInv'
  BY <1>2, <1>7, <1>8, Zenon DEF FlowInv, StationInv
<1>10. PostedInv'
  <2>1. \A n \in 1..Len(posted'[l]) : posted'[l][n].n = n /\ posted'[l][n].link = l
    BY <1>1, <1>5, <1>6, SMTT(30) DEF FlowInv, PostedInv
  <2> SUFFICES ASSUME NEW m \in Link, NEW n \in 1..Len(posted'[m])
               PROVE  posted'[m][n].n = n /\ posted'[m][n].link = m
    BY Zenon DEF PostedInv
  <2>2. CASE m = l
    BY <2>1, <2>2, Zenon
  <2>3. CASE m # l
    <3>1. posted'[m] = posted[m]
      BY <1>2, <2>3, Zenon
    <3>2. n \in 1..Len(posted[m])
      BY <3>1, Zenon
    <3> QED
      BY <3>1, <3>2, Zenon DEF FlowInv, PostedInv
  <2> QED
    BY <2>2, <2>3, Zenon
<1>11. ASSUME NEW r \in Req, Executed(r) PROVE Executed(r)'
  <2>1. r.link \in Link /\ r.n \in Nat /\ InFront(r)
    BY <1>11, ReqType, Zenon DEF Executed
  <2>2. InFront(r)'
    <3>1. CASE r.link # l
      BY <1>2, <2>1, <3>1, Zenon DEF InFront
    <3>2. CASE r.link = l
      <4>1. r.n <= Len(posted[l]) /\ \A i \in 1..Len(fifo[l]) : r.n < fifo[l][i].n
        BY <2>1, <3>2, Zenon DEF InFront
      <4>2. r.n <= Len(posted'[l]) /\ r.n < w.n
        BY <1>1, <1>3, <1>5, <2>1, <4>1
      <4>3. \A i \in 1..Len(fifo'[l]) : r.n < fifo'[l][i].n
        BY <1>4, <1>6, <4>1, <4>2, Zenon
      <4> QED
        BY <3>2, <4>2, <4>3, Zenon DEF InFront
    <3> QED
      BY <3>1, <3>2, Zenon
  <2> QED
    BY <1>2, <1>11, <2>2, Zenon DEF Executed
<1>12. HandledInv'
  <2>1. \A m \in Link : \A i \in 1..Len(handled[m]) : handled[m][i] \in Req
    BY Elements, Zenon DEF IInv, TypeInv
  <2> QED
    BY <1>2, <1>11, <2>1, Zenon DEF FlowInv, HandledInv
<1> QED
  BY <1>9, <1>10, <1>12, SMTT(30) DEF FlowInv

\* The interrupt handler moves a request to the queue or drops it.
LEMMA TakenFlow ==
  ASSUME IInv, FlowInv, isr = "handle", pc = "loop", NEW L, L = isrLink, NEW h, h = Head(fifo[L]),
         fifo' = [fifo EXCEPT ![L] = Tail(@)],
         \/ queue' = Append(queue, h) /\ UNCHANGED lost
         \/ lost' = Append(lost, h) /\ UNCHANGED queue,
         pc' # "serve", UNCHANGED <<clientVars, cur, handled>>
  PROVE  FlowInv'
<1>1. L \in Link /\ fifo[L] \in Seq(Req) /\ fifo[L] # <<>> /\ h \in Req /\ h = fifo[L][1]
  BY RequestIsThere, Zenon
<1>2. Taken(L, h)
  <2>1. UNCHANGED clientVars
    BY Zenon
  <2> QED
    BY <2>1, TakeOrder, Zenon
<1>3. /\ UNCHANGED <<posted, cur, handled>> /\ pc # "serve" /\ pc' # "serve" /\ h.link = L /\ h.n \in Nat
      /\ Len(fifo[L]) \in Nat /\ 1 \in 1..Len(fifo[L])
  <2>1. Len(fifo[L]) \in Nat /\ Len(fifo[L]) # 0
    BY <1>1, SeqLen, SeqEmpty, Zenon
  <2> QED
    BY <1>1, <1>2, <2>1, ReqType DEF clientVars, Taken
<1>4. queue \in Seq(Req) /\ Len(queue) \in Nat /\ \A i \in 1..Len(queue) : queue[i] \in Req
  BY SeqLen, Elements, Zenon DEF IInv, TypeInv
<1>5. /\ Len(Append(queue, h)) = Len(queue) + 1
      /\ \A i \in 1..Len(queue) : Append(queue, h)[i] = queue[i]
      /\ Append(queue, h)[Len(queue) + 1] = h
  BY <1>1, <1>4, SeqAppend
<1>6. ASSUME NEW r \in Req
      PROVE  (\E i \in 1..Len(fifo[r.link]) : r = fifo[r.link][i])
               <=> (\E i \in 1..Len(fifo'[r.link]) : r = fifo'[r.link][i]) \/ r = h
  <2>1. r.link \in Link
    BY ReqType, Zenon
  <2>2. CASE r.link # L
    BY <1>2, <1>3, <2>1, <2>2, Zenon DEF Taken
  <2>3. CASE r.link = L
    <3>1. \A i \in 1..Len(fifo[L]) : i = 1 \/ (i - 1 \in 1..Len(fifo'[L]) /\ fifo'[L][i - 1] = fifo[L][i])
      BY <1>2, <1>3 DEF Taken
    <3>2. \A i \in 1..Len(fifo'[L]) : i + 1 \in 1..Len(fifo[L]) /\ fifo'[L][i] = fifo[L][i + 1]
      BY <1>2, Zenon DEF Taken
    <3>3. ASSUME NEW i \in 1..Len(fifo[L]), r = fifo[L][i]
          PROVE  (\E j \in 1..Len(fifo'[L]) : r = fifo'[L][j]) \/ r = h
      BY <1>1, <3>1, <3>3, Zenon
    <3>4. ASSUME NEW i \in 1..Len(fifo'[L]), r = fifo'[L][i]
          PROVE  \E j \in 1..Len(fifo[L]) : r = fifo[L][j]
      BY <3>2, <3>4, Zenon
    <3> QED
      BY <1>1, <1>3, <2>3, <3>3, <3>4, Zenon
  <2> QED
    BY <2>2, <2>3, Zenon
<1>7. ASSUME NEW r \in Req PROVE Posted(r)' <=> Posted(r)
  BY <1>3, Zenon DEF Posted
<1>8. Posted(h) /\ h \notin Range(lost)
  <2>1. Stationed(h)
    BY <1>1, <1>3, Zenon DEF Stationed
  <2> QED
    BY <1>1, <2>1, Zenon DEF FlowInv, StationInv
<1>9. \A m \in Link : \A i \in 1..Len(handled[m]) : handled[m][i] \in Req /\ handled[m][i].link = m
  BY Elements, Zenon DEF IInv, TypeInv, FlowInv, HandledInv
<1>10. \A r \in Req : InFront(r) => r # h
  <2>1. ~(h.n < h.n)
    BY <1>3
  <2>2. InFront(h) => h.n < fifo[L][1].n
    BY <1>3, Zenon DEF InFront
  <2> QED
    BY <1>1, <2>1, <2>2, Zenon
<1>11. CASE queue' = Append(queue, h) /\ lost' = lost
  <2>1. /\ \A i \in 1..Len(queue') : i \in 1..Len(queue) \/ i = Len(queue) + 1
        /\ \A i \in 1..Len(queue) : i \in 1..Len(queue')
        /\ Len(queue) + 1 \in 1..Len(queue')
    BY <1>4, <1>5, <1>11
  <2>2. \A r : (\E i \in 1..Len(queue') : r = queue'[i]) <=> (\E i \in 1..Len(queue) : r = queue[i]) \/ r = h
    BY <1>5, <1>11, <2>1, Zenon
  <2>3. ASSUME NEW r \in Req PROVE Stationed(r)' <=> Stationed(r)
    <3>1. /\ (\E i \in 1..Len(handled'[r.link]) : r = handled'[r.link][i])
                <=> (\E i \in 1..Len(handled[r.link]) : r = handled[r.link][i])
          /\ pc' = "serve" /\ r = cur' <=> pc = "serve" /\ r = cur
      BY <1>3, Zenon
    <3>2. (\E i \in 1..Len(queue') : r = queue'[i]) <=> (\E i \in 1..Len(queue) : r = queue[i]) \/ r = h
      BY <2>2, Zenon
    <3>3. (\E i \in 1..Len(fifo[r.link]) : r = fifo[r.link][i])
            <=> (\E i \in 1..Len(fifo'[r.link]) : r = fifo'[r.link][i]) \/ r = h
      BY <1>6, ZenonT(30)
    <3> QED
      BY <3>1, <3>2, <3>3, Zenon DEF Stationed
  <2>4. StationInv'
    BY <1>7, <1>11, <2>3, Zenon DEF FlowInv, StationInv
  <2>5. ASSUME NEW r \in Req, Executed(r) PROVE Executed(r)'
    <3>1. InFront(r)' /\ (r.link = L => r.n < h.n)
      BY <1>2, <2>5, Zenon DEF Taken, Executed
    <3>2. \A j \in 1..Len(queue') : queue'[j].link = r.link => r.n < queue'[j].n
      BY <1>3, <1>5, <1>11, <2>1, <2>5, <3>1, SMTT(30) DEF Executed
    <3> QED
      BY <1>3, <2>5, <3>1, <3>2, Zenon DEF Executed
  <2>6. PostedInv'
    BY <1>3, Zenon DEF FlowInv, PostedInv
  <2>7. HandledInv'
    BY <1>3, <1>9, <2>5, Zenon DEF FlowInv, HandledInv
  <2> QED
    BY <2>4, <2>6, <2>7, Zenon DEF FlowInv
<1>12. CASE lost' = Append(lost, h) /\ queue' = queue
  <2>1. ~(\E i \in 1..Len(handled[L]) : h = handled[L][i]) /\ ~(\E i \in 1..Len(queue) : h = queue[i])
    <3>1. \A i \in 1..Len(handled[L]) : InFront(handled[L][i])
      BY <1>1, Zenon DEF FlowInv, HandledInv, Executed
    <3>2. \A i \in 1..Len(queue) : InFront(queue[i])
      BY Zenon DEF IInv, QueueOrder
    <3> QED
      BY <1>1, <1>4, <1>9, <1>10, <3>1, <3>2, ZenonT(30)
  <2>2. ~(\E i \in 1..Len(fifo'[L]) : h = fifo'[L][i])
    <3>1. \A i \in 1..Len(fifo'[L]) : h.n < fifo'[L][i].n
      BY <1>2, <1>3, Zenon DEF Taken, InFront
    <3>2. ~(h.n < h.n)
      BY <1>3
    <3> QED
      BY <3>1, <3>2, ZenonT(30)
  <2>3. ASSUME NEW r \in Req PROVE Stationed(r)' <=> Stationed(r) /\ r # h
    BY <1>3, <1>6, <1>12, <2>1, <2>2, ZenonT(30) DEF Stationed
  <2>8. Range(lost') = Range(lost) \cup {h}
    <3>1. lost \in Seq(Req)
      BY Zenon DEF IInv, TypeInv
    <3>2. \A x \in Req : Range(Append(lost, x)) = Range(lost) \cup {x}
      BY <3>1, SeqRange, Zenon
    <3> QED
      BY <1>1, <1>12, <3>2, Zenon
  <2>4. StationInv'
    BY <1>7, <2>3, <2>8, Zenon DEF FlowInv, StationInv
  <2>5. ASSUME NEW r \in Req, Executed(r) PROVE Executed(r)'
    <3>1. InFront(r)'
      BY <1>2, <2>5, Zenon DEF Taken, Executed
    <3> QED
      BY <1>3, <1>12, <2>5, <3>1, Zenon DEF Executed
  <2>6. PostedInv'
    BY <1>3, Zenon DEF FlowInv, PostedInv
  <2>7. HandledInv'
    BY <1>3, <1>9, <2>5, Zenon DEF FlowInv, HandledInv
  <2> QED
    BY <2>4, <2>6, <2>7, Zenon DEF FlowInv
<1> QED
  BY <1>11, <1>12, Zenon

LEMMA QueueUnlinkFlow ==
  ASSUME IInv, FlowInv, QueueUnlink
  PROVE  FlowInv'
<1>1. /\ pc = "unlink" /\ pc' = "serve" /\ queue' = (IF last THEN <<>> ELSE Tail(queue))
      /\ UNCHANGED <<posted, handled, fifo, lost, cur>>
  BY Zenon DEF QueueUnlink, Main, clientVars, isrVars
<1>2. /\ queue \in Seq(Req) /\ queue # <<>> /\ cur = queue[1] /\ cur \in Req
      /\ last = (Len(queue) = 1)
  BY <1>1 DEF IInv, TypeInv
<1>3. Len(queue) \in Nat /\ Len(queue) >= 1
  BY <1>2, SeqLen, SeqEmpty
<1>4. /\ Tail(queue) \in Seq(Req) /\ Len(Tail(queue)) = Len(queue) - 1
      /\ \A i \in 1..Len(Tail(queue)) : Tail(queue)[i] = queue[i + 1]
  BY <1>2, SeqTail, Zenon
<1>5. queue' = Tail(queue)
  <2>1. CASE last
    <3>1. Len(queue) = 1
      BY <1>2, <2>1, Zenon
    <3>2. Len(Tail(queue)) = 0
      BY <1>4, <3>1
    <3> QED
      BY <1>1, <1>4, <2>1, <3>2, SeqEmpty, Zenon
  <2>2. CASE ~last
    BY <1>1, <2>2, Zenon
  <2> QED
    BY <2>1, <2>2
<1>6. /\ \A i \in 1..Len(queue') : i + 1 \in 1..Len(queue) /\ queue'[i] = queue[i + 1]
      /\ \A i \in 1..Len(queue) : i = 1 \/ (i - 1 \in 1..Len(queue') /\ queue'[i - 1] = queue[i])
      /\ 1 \in 1..Len(queue)
  BY <1>3, <1>4, <1>5
<1>7. ASSUME NEW r \in Req PROVE Stationed(r)' <=> Stationed(r)
  <2>1. (\E i \in 1..Len(queue) : r = queue[i]) <=> (\E i \in 1..Len(queue') : r = queue'[i]) \/ r = cur
    <3>1. ASSUME NEW i \in 1..Len(queue), r = queue[i]
          PROVE  (\E j \in 1..Len(queue') : r = queue'[j]) \/ r = cur
      BY <1>2, <1>6, <3>1, Zenon
    <3>2. ASSUME NEW i \in 1..Len(queue'), r = queue'[i]
          PROVE  \E j \in 1..Len(queue) : r = queue[j]
      BY <1>6, <3>2, Zenon
    <3> QED
      BY <1>2, <1>6, <3>1, <3>2, Zenon
  <2>2. /\ (\E i \in 1..Len(handled'[r.link]) : r = handled'[r.link][i])
              <=> (\E i \in 1..Len(handled[r.link]) : r = handled[r.link][i])
        /\ (\E i \in 1..Len(fifo'[r.link]) : r = fifo'[r.link][i])
              <=> (\E i \in 1..Len(fifo[r.link]) : r = fifo[r.link][i])
        /\ pc' = "serve" /\ r = cur' <=> r = cur
        /\ ~(pc = "serve" /\ r = cur)
    BY <1>1, Zenon
  <2> QED
    BY <2>1, <2>2, Zenon DEF Stationed
<1>8. StationInv'
  <2>1. \A r : Posted(r)' <=> Posted(r)
    BY <1>1, Zenon DEF Posted
  <2> QED
    BY <1>1, <1>7, <2>1, Zenon DEF FlowInv, StationInv
<1>9. ASSUME NEW r \in Req, Executed(r) PROVE Executed(r)'
  <2>1. InFront(r)'
    BY <1>1, <1>9, Zenon DEF Executed, InFront
  <2>2. cur.link = r.link => r.n < cur.n
    BY <1>2, <1>6, <1>9, Zenon DEF Executed
  <2>3. \A j \in 1..Len(queue') : queue'[j].link = r.link => r.n < queue'[j].n
    BY <1>6, <1>9, ZenonT(30) DEF Executed
  <2> QED
    BY <1>1, <2>1, <2>2, <2>3, Zenon DEF Executed
<1>10. PostedInv' /\ HandledInv'
  <2>1. \A m \in Link : \A i \in 1..Len(handled[m]) : handled[m][i] \in Req
    BY Elements, Zenon DEF IInv, TypeInv
  <2>2. PostedInv'
    BY <1>1, Zenon DEF FlowInv, PostedInv
  <2>3. HandledInv'
    BY <1>1, <1>9, <2>1, Zenon DEF FlowInv, HandledInv
  <2> QED
    BY <2>2, <2>3, Zenon
<1> QED
  BY <1>8, <1>10, Zenon DEF FlowInv

LEMMA ServeFlow ==
  ASSUME IInv, FlowInv, Serve
  PROVE  FlowInv'
<1>1. /\ pc = "serve" /\ pc' # "serve" /\ UNCHANGED <<posted, queue, fifo, lost, cur>>
      /\ handled' = [handled EXCEPT ![cur.link] = Append(@, cur)]
  BY DEF Serve, Main, clientVars, isrVars
<1>2. cur \in Req /\ cur.link \in Link /\ cur.n \in Nat /\ handled[cur.link] \in Seq(Req)
  BY <1>1, ReqType, Zenon DEF IInv, TypeInv
<1>3. /\ \A m \in Link : m # cur.link => handled'[m] = handled[m]
      /\ handled'[cur.link] = Append(handled[cur.link], cur)
  BY <1>1, <1>2, Zenon DEF IInv, TypeInv
<1> DEFINE H == handled[cur.link]
<1>4. /\ Len(H) \in Nat /\ Len(handled'[cur.link]) = Len(H) + 1
      /\ \A i \in 1..Len(H) : handled'[cur.link][i] = H[i]
      /\ handled'[cur.link][Len(H) + 1] = cur
  BY <1>2, <1>3, SeqAppend, SeqLen
<1>5. /\ \A i \in 1..Len(handled'[cur.link]) : i \in 1..Len(H) \/ i = Len(H) + 1
      /\ \A i \in 1..Len(H) : i \in 1..Len(handled'[cur.link])
      /\ Len(H) + 1 \in 1..Len(handled'[cur.link])
  BY <1>4
<1>6. ASSUME NEW r \in Req PROVE Stationed(r)' <=> Stationed(r)
  <2>1. (\E i \in 1..Len(handled'[r.link]) : r = handled'[r.link][i])
          <=> (\E i \in 1..Len(handled[r.link]) : r = handled[r.link][i]) \/ r = cur
    <3>1. CASE r.link # cur.link
      BY <1>3, <3>1, ReqType, Zenon
    <3>2. CASE r.link = cur.link
      <4>1. (\E i \in 1..Len(handled'[cur.link]) : r = handled'[cur.link][i])
              <=> (\E i \in 1..Len(H) : r = H[i]) \/ r = cur
        BY <1>4, <1>5, Zenon
      <4> QED
        BY <3>2, <4>1, Zenon
    <3> QED
      BY <3>1, <3>2, Zenon
  <2>2. /\ (\E i \in 1..Len(queue') : r = queue'[i]) <=> (\E i \in 1..Len(queue) : r = queue[i])
        /\ (\E i \in 1..Len(fifo'[r.link]) : r = fifo'[r.link][i])
              <=> (\E i \in 1..Len(fifo[r.link]) : r = fifo[r.link][i])
        /\ pc = "serve" /\ r = cur <=> r = cur
        /\ ~(pc' = "serve" /\ r = cur')
    BY <1>1, Zenon
  <2> QED
    BY <2>1, <2>2, Zenon DEF Stationed
<1>7. StationInv'
  <2>1. \A r : Posted(r)' <=> Posted(r)
    BY <1>1, Zenon DEF Posted
  <2> QED
    BY <1>1, <1>6, <2>1, Zenon DEF FlowInv, StationInv
<1>8. ASSUME NEW r \in Req, Executed(r) PROVE Executed(r)'
  BY <1>1, <1>8, Zenon DEF Executed, InFront
<1>9. Executed(cur)'
  <2>1. InFront(cur) /\ \A i \in 1..Len(queue) : queue[i].link = cur.link => cur.n < queue[i].n
    BY <1>1, Zenon DEF IInv, QueueOrder
  <2> QED
    BY <1>1, <2>1, Zenon DEF Executed, InFront
<1>10. HandledInv'
  <2>1. \A m \in Link : \A i \in 1..Len(handled[m]) :
          handled[m][i] \in Req /\ handled[m][i].link = m /\ Executed(handled[m][i])
    <3>1. \A m \in Link : handled[m] \in Seq(Req)
      BY Zenon DEF IInv, TypeInv
    <3>2. \A m \in Link : \A i \in 1..Len(handled[m]) : handled[m][i] \in Req
      BY <3>1, Elements, Zenon
    <3> QED
      BY <3>2, Zenon DEF FlowInv, HandledInv
  <2>2. ASSUME NEW m \in Link, NEW i \in 1..Len(handled'[m])
        PROVE  handled'[m][i].link = m /\ Executed(handled[m][i])'
    <3>1. PICK r \in Req : r = handled'[m][i]
      BY <1>2, <1>3, <1>4, <1>5, <2>1, Zenon
    <3>2. r.link = m /\ (r = cur \/ Executed(r))
      <4>1. (r = cur /\ m = cur.link) \/ \E n \in 1..Len(handled[m]) : r = handled[m][n]
        <5>1. CASE m = cur.link
          BY <1>4, <1>5, <3>1, <5>1, Zenon
        <5>2. CASE m # cur.link
          BY <1>3, <3>1, <5>2, Zenon
        <5> QED
          BY <5>1, <5>2, Zenon
      <4>2. \A n \in 1..Len(handled[m]) : handled[m][n].link = m /\ Executed(handled[m][n])
        BY <2>1, Zenon
      <4>3. ASSUME NEW n \in 1..Len(handled[m]), r = handled[m][n] PROVE r.link = m /\ Executed(r)
        <5>1. handled[m][n].link = m /\ Executed(handled[m][n])
          BY <4>2, Zenon
        <5> QED
          BY <4>3, <5>1, Zenon
      <4> QED
        BY <4>1, <4>3, Zenon
    <3>3. Executed(r)'
      <4>1. CASE r = cur
        BY <1>1, <1>9, <4>1, Zenon DEF Executed, InFront
      <4> QED
        BY <1>8, <3>2, <4>1, Zenon
    <3> QED
      BY <3>1, <3>2, <3>3, Zenon DEF Executed, InFront
  <2>3. ASSUME NEW m \in Link, NEW i \in 1..Len(handled'[m]), NEW j \in 1..Len(handled'[m]), i < j
        PROVE  handled'[m][i].n < handled'[m][j].n
    <3>1. CASE m # cur.link
      BY <1>3, <2>3, <3>1, Zenon DEF FlowInv, HandledInv
    <3>2. CASE m = cur.link
      <4>1. i \in 1..Len(H) /\ (j \in 1..Len(H) \/ j = Len(H) + 1)
        BY <1>4, <1>5, <2>3, <3>2
      <4>2. H[i].n < cur.n /\ (j \in 1..Len(H) => H[i].n < H[j].n)
        BY <1>1, <1>2, <2>1, <2>3, <4>1, Zenon DEF FlowInv, HandledInv, Executed
      <4> QED
        BY <1>4, <3>2, <4>1, <4>2, Zenon
    <3> QED
      BY <3>1, <3>2, Zenon
  <2> QED
    BY <2>2, <2>3, Zenon DEF HandledInv
<1>11. PostedInv'
  BY <1>1, Zenon DEF FlowInv, PostedInv
<1> QED
  BY <1>7, <1>10, <1>11 DEF FlowInv

LEMMA IsrHandleFlow ==
  ASSUME IInv, FlowInv, Running, IsrHandle
  PROVE  FlowInv'
<1>1. /\ isr = "handle" /\ ~MboxIsEmpty(isrLink) /\ ~MboxReadTimesOut(isrLink)
      /\ UNCHANGED <<clientVars, cur, handled>>
  BY RequestIsThere, Zenon DEF IsrHandle
<1>2. pc = "loop"
  BY <1>1, Zenon DEF IInv, TypeInv, Running
<1>3. CASE used = Blocks
  <2>1. pc' = "panic" /\ UNCHANGED <<posted, fifo, queue, lost, handled>>
    BY <1>1, <1>3, Zenon DEF IsrHandle, clientVars
  <2> QED
    BY <1>2, <2>1, SameFlow, Zenon
<1>4. CASE used # Blocks
  <2> DEFINE h == Head(fifo[isrLink])
  <2>1. fifo' = [fifo EXCEPT ![isrLink] = Tail(@)] /\ pc' # "serve"
    BY <1>1, <1>2, <1>4, Zenon DEF IsrHandle
  <2>2. \/ queue' = Append(queue, h) /\ UNCHANGED lost
        \/ lost' = Append(lost, h) /\ UNCHANGED queue
    BY <1>1, <1>4, Zenon DEF IsrHandle, QueuePush
  <2> QED
    BY <1>1, <1>2, <2>1, <2>2, TakenFlow, Zenon
<1> QED
  BY <1>3, <1>4

LEMMA StepFlow == IInv /\ FlowInv /\ [Next]_vars => FlowInv'
<1> SUFFICES ASSUME IInv, FlowInv, [Next]_vars PROVE FlowInv'
  BY Zenon
<1>1. CASE ClientSteps
  <2>1. PICK l \in Link : (\E k \in kinds : Write(l, k)) \/ WriteRest(l) \/ Ring(l) \/ Collect(l)
    BY <1>1, Zenon DEF ClientSteps
  <2>2. CASE (\E k \in kinds : Write(l, k)) \/ Ring(l) \/ Collect(l)
    <3>1. UNCHANGED <<posted, handled, queue, fifo, lost, pc, cur>>
      BY <2>2, Zenon DEF Write, Ring, Collect, isrVars, mainVars
    <3> QED
      BY <3>1, SameFlow, Zenon
  <2> QED
    BY <2>1, <2>2, WriteRestFlow, Zenon
<1>2. CASE Running /\ ((\E l \in Link : IsrEnter(l)) \/ IsrLeave)
  <2>1. UNCHANGED <<posted, handled, queue, fifo, lost, pc, cur>>
    BY <1>2, Zenon DEF IsrEnter, IsrLeave, clientVars, mainVars
  <2> QED
    BY <2>1, SameFlow, Zenon
<1>3. CASE Running /\ (CriticalSectionEnter \/ QueuePop \/ Complete \/ IommuUnmap \/ Free \/ CriticalSectionExit)
  <2>1. UNCHANGED <<posted, handled, queue, fifo, lost>> /\ pc # "serve" /\ pc' # "serve"
    BY <1>3 DEF CriticalSectionEnter, QueuePop, Complete, IommuUnmap, Free, CriticalSectionExit, Main,
                clientVars, isrVars
  <2> QED
    BY <2>1, SameFlow, Zenon
<1>4. CASE UNCHANGED vars
  <2>1. UNCHANGED <<posted, handled, queue, fifo, lost, pc, cur>>
    BY <1>4, Zenon DEF vars, clientVars, isrVars, mainVars
  <2> QED
    BY <2>1, SameFlow, Zenon
<1> QED
  BY <1>1, <1>2, <1>3, <1>4, IsrHandleFlow, QueueUnlinkFlow, ServeFlow, Zenon DEF Next, IsrSteps, MainSteps

\* Every posted request is in one place.
THEOREM FlowInvariant == Spec => []FlowInv
<1>1. Init => IInv /\ FlowInv
  BY InitInv, InitFlow
<1>2. IInv /\ FlowInv /\ [Next]_vars => IInv' /\ FlowInv'
  BY StepInv, StepFlow, SMTT(30)
<1> QED
  BY <1>1, <1>2, PTL DEF Spec

\* The requests of l in a sequence, their order, and the order of two sequences.
Items(s, l) == {s[i] : i \in Own(s, l)}
Sorted(s, l) == \A i, j \in Own(s, l) : i < j => s[i].n < s[j].n
Ahead(a, b, l) == \A p \in Items(a, l), q \in Items(b, l) : p.n < q.n

LEMMA Join ==
  ASSUME NEW a \in Seq(Req), NEW b \in Seq(Req), NEW l
  PROVE  /\ a \o b \in Seq(Req) /\ Items(a \o b, l) = Items(a, l) \cup Items(b, l)
         /\ Sorted(a, l) /\ Sorted(b, l) /\ Ahead(a, b, l) => Sorted(a \o b, l)
<1> DEFINE s == a \o b
<1>1. /\ Len(a) \in Nat /\ Len(b) \in Nat /\ DOMAIN a = 1..Len(a) /\ DOMAIN b = 1..Len(b)
      /\ s \in Seq(Req) /\ Len(s) = Len(a) + Len(b)
      /\ \A i \in 1..Len(a) : s[i] = a[i]
      /\ \A i \in 1..Len(b) : s[Len(a) + i] = b[i]
  <2>1. Len(a) \in Nat /\ Len(b) \in Nat /\ DOMAIN a = 1..Len(a) /\ DOMAIN b = 1..Len(b)
    BY SeqLen, Zenon
  <2>2. /\ s \in Seq(Req) /\ Len(s) = Len(a) + Len(b)
        /\ \A i \in 1..Len(s) : s[i] = IF i <= Len(a) THEN a[i] ELSE b[i - Len(a)]
    BY SeqConcat, Zenon
  <2> HIDE DEF s
  <2>3. \A i \in 1..Len(a) : i \in 1..Len(s) /\ i <= Len(a)
    BY <2>1, <2>2
  <2>4. \A i \in 1..Len(b) : Len(a) + i \in 1..Len(s) /\ ~(Len(a) + i <= Len(a)) /\ (Len(a) + i) - Len(a) = i
    BY <2>1, <2>2
  <2> QED
    BY <2>1, <2>2, <2>3, <2>4, Zenon
<1>2. DOMAIN s = 1..Len(s)
  BY <1>1, SeqLen, Zenon
<1> HIDE DEF s
<1>3. \A i \in DOMAIN s : i \in 1..Len(a) \/ (i - Len(a) \in 1..Len(b) /\ Len(a) + (i - Len(a)) = i)
  BY <1>1, <1>2
<1>4. \A i \in Own(s, l) : \/ i \in Own(a, l) /\ s[i] = a[i]
                           \/ i - Len(a) \in Own(b, l) /\ s[i] = b[i - Len(a)]
  BY <1>1, <1>3, Zenon DEF Own
<1>5. /\ \A i \in Own(a, l) : i \in Own(s, l) /\ s[i] = a[i]
      /\ \A i \in Own(b, l) : Len(a) + i \in Own(s, l) /\ s[Len(a) + i] = b[i]
  BY <1>1, <1>2, SMTT(30) DEF Own
<1>6. Items(s, l) = Items(a, l) \cup Items(b, l)
  BY <1>4, <1>5, SMTT(30) DEF Items
<1>7. ASSUME Sorted(a, l), Sorted(b, l), Ahead(a, b, l), NEW i \in Own(s, l), NEW j \in Own(s, l), i < j
      PROVE  s[i].n < s[j].n
  <2>1. /\ i \in Int /\ j \in Int /\ Own(a, l) \subseteq 1..Len(a) /\ Own(b, l) \subseteq 1..Len(b)
    BY <1>1, <1>2, SMTT(30) DEF Own
  <2>2. CASE j \in Own(a, l) /\ s[j] = a[j]
    <3>1. i \in Own(a, l) /\ s[i] = a[i]
      BY <1>1, <1>4, <1>7, <2>1, <2>2, SMTT(30)
    <3> QED
      BY <1>7, <2>2, <3>1, Zenon DEF Sorted
  <2>3. CASE j - Len(a) \in Own(b, l) /\ s[j] = b[j - Len(a)]
    <3>1. CASE i \in Own(a, l) /\ s[i] = a[i]
      BY <1>7, <2>3, <3>1, Zenon DEF Ahead, Items
    <3>2. CASE i - Len(a) \in Own(b, l) /\ s[i] = b[i - Len(a)]
      <4>1. i - Len(a) < j - Len(a)
        BY <1>1, <1>7, <2>1, SMTT(30)
      <4> QED
        BY <1>7, <2>3, <3>2, <4>1, Zenon DEF Sorted
    <3> QED
      BY <1>4, <3>1, <3>2, Zenon
  <2> QED
    BY <1>4, <2>2, <2>3, Zenon
<1> QED
  BY <1>1, <1>6, <1>7, Zenon DEF s, Sorted

\* The flow of a client holds exactly its requests that were not dropped, in
\* the order of their numbers.
LEMMA FlowOrder ==
  ASSUME IInv, FlowInv, NEW l \in Link
  PROVE  /\ Items(Flow(l), l) = {posted[l][n] : n \in DOMAIN posted[l]} \ Range(lost)
         /\ Sorted(Flow(l), l)
<1> DEFINE H == handled[l]
           W == IF pc = "serve" THEN <<cur>> ELSE <<>>
           Q == queue
           F == fifo[l]
<1>1. H \in Seq(Req) /\ Q \in Seq(Req) /\ F \in Seq(Req) /\ posted[l] \in Seq(Req)
  BY Zenon DEF IInv, TypeInv
<1>2. pc = "serve" => cur \in Req
  BY Zenon DEF IInv, TypeInv
<1>3. W \in Seq(Req) /\ \A r : r \in Items(W, l) <=> pc = "serve" /\ r = cur /\ r.link = l
  <2>1. CASE pc = "serve"
    BY <1>2, <2>1 DEF Items, Own
  <2>2. CASE pc # "serve"
    BY <2>2 DEF Items, Own
  <2> QED
    BY <2>1, <2>2, Zenon
<1>4. Sorted(W, l)
  BY <1>2 DEF Sorted, Own
<1>5. /\ DOMAIN H = 1..Len(H) /\ DOMAIN Q = 1..Len(Q) /\ DOMAIN F = 1..Len(F)
      /\ DOMAIN posted[l] = 1..Len(posted[l])
  BY <1>1, SeqLen, Zenon
<1> HIDE DEF H, W, Q, F
<1>6. \A r : /\ r \in Items(H, l) <=> r.link = l /\ \E i \in 1..Len(H) : r = H[i]
             /\ r \in Items(Q, l) <=> r.link = l /\ \E i \in 1..Len(Q) : r = Q[i]
             /\ r \in Items(F, l) <=> r.link = l /\ \E i \in 1..Len(F) : r = F[i]
  BY <1>5, Zenon DEF Items, Own
<1>7. /\ \A i \in 1..Len(H) : H[i].link = l /\ Executed(H[i])
      /\ \A i, j \in 1..Len(H) : i < j => H[i].n < H[j].n
  BY Zenon DEF FlowInv, HandledInv, H
<1>8. Sorted(H, l) /\ Sorted(Q, l) /\ Sorted(F, l)
  <2>1. Sorted(H, l)
    BY <1>5, <1>7, Zenon DEF Sorted, Own
  <2>2. Sorted(Q, l)
    BY <1>5, ZenonT(30) DEF IInv, QueueOrder, Sorted, Own, Q
  <2>3. Sorted(F, l)
    BY <1>5, Zenon DEF IInv, Numbered, Sorted, Own, F
  <2> QED
    BY <2>1, <2>2, <2>3
<1>9. \A r \in Items(H, l) : r.link = l /\ Executed(r)
  BY <1>6, <1>7, ZenonT(30)
<1>10. /\ \A r \in Items(Q, l) : InFront(r)
       /\ \A r \in Items(W, l) : InFront(r) /\ \A q \in Items(Q, l) : r.n < q.n
  <2>1. \A i \in 1..Len(Q) : InFront(Q[i])
    BY Zenon DEF IInv, QueueOrder, Q
  <2>2. pc = "serve" => InFront(cur) /\ \A i \in 1..Len(Q) : Q[i].link = cur.link => cur.n < Q[i].n
    BY Zenon DEF IInv, QueueOrder, Q
  <2>3. ASSUME NEW r \in Items(Q, l) PROVE InFront(r)
    <3>1. PICK i \in 1..Len(Q) : r = Q[i]
      BY <1>6, Zenon
    <3> QED
      BY <2>1, <3>1, Zenon
  <2>4. ASSUME NEW r \in Items(W, l) PROVE InFront(r) /\ \A q \in Items(Q, l) : r.n < q.n
    <3>1. pc = "serve" /\ r = cur /\ r.link = l
      BY <1>3, Zenon
    <3>2. ASSUME NEW q \in Items(Q, l) PROVE r.n < q.n
      <4>1. PICK i \in 1..Len(Q) : q.link = l /\ q = Q[i]
        BY <1>6, Zenon
      <4> QED
        BY <2>2, <3>1, <4>1, Zenon
    <3>3. InFront(r)
      BY <2>2, <3>1, Zenon
    <3> QED
      BY <3>2, <3>3
  <2> QED
    BY <2>3, <2>4, Zenon
<1>11. \A r \in Items(F, l) : \E i \in 1..Len(fifo[l]) : r = fifo[l][i]
  BY <1>6, Zenon DEF F
<1>12. /\ Ahead(H, W, l) /\ Ahead(H, Q, l) /\ Ahead(H, F, l) /\ Ahead(W, Q, l) /\ Ahead(W, F, l)
       /\ Ahead(Q, F, l)
  <2>1. ASSUME NEW r \in Items(H, l) \cup Items(W, l) \cup Items(Q, l), NEW q \in Items(F, l) PROVE r.n < q.n
    <3>1. InFront(r) /\ r.link = l
      BY <1>3, <1>6, <1>9, <1>10, ZenonT(30) DEF Executed
    <3> QED
      BY <1>11, <3>1, Zenon DEF InFront
  <2>2. ASSUME NEW r \in Items(H, l), NEW q \in Items(W, l) PROVE r.n < q.n
    BY <1>3, <1>9, Zenon DEF Executed
  <2>3. ASSUME NEW r \in Items(H, l), NEW q \in Items(Q, l) PROVE r.n < q.n
    BY <1>6, <1>9 DEF Executed, Q
  <2> QED
    BY <1>10, <2>1, <2>2, <2>3, Zenon DEF Ahead
<1>13. Flow(l) = ((H \o W) \o Q) \o F
  BY SMTT(30) DEF Flow, H, W, Q, F
<1>14. /\ H \o W \in Seq(Req) /\ Items(H \o W, l) = Items(H, l) \cup Items(W, l)
       /\ Sorted(H \o W, l)
  BY <1>1, <1>3, <1>4, <1>8, <1>12, Join, Zenon DEF H
<1>15. /\ (H \o W) \o Q \in Seq(Req)
       /\ Items((H \o W) \o Q, l) = Items(H, l) \cup Items(W, l) \cup Items(Q, l)
       /\ Sorted((H \o W) \o Q, l)
  <2>1. Ahead(H \o W, Q, l)
    BY <1>12, <1>14, Zenon DEF Ahead
  <2>2. Q \in Seq(Req)
    BY <1>1, Zenon DEF Q
  <2>3. /\ (H \o W) \o Q \in Seq(Req)
        /\ Items((H \o W) \o Q, l) = Items(H \o W, l) \cup Items(Q, l)
        /\ Sorted((H \o W) \o Q, l)
    BY <1>8, <1>14, <2>1, <2>2, Join, Zenon
  <2> QED
    BY <1>14, <2>3, Zenon
<1>16. /\ Items(Flow(l), l) = Items(H, l) \cup Items(W, l) \cup Items(Q, l) \cup Items(F, l)
       /\ Sorted(Flow(l), l)
  <2>1. Ahead((H \o W) \o Q, F, l)
    BY <1>12, <1>15, Zenon DEF Ahead
  <2>2. F \in Seq(Req)
    BY <1>1, Zenon DEF F
  <2>3. /\ Items(((H \o W) \o Q) \o F, l) = Items((H \o W) \o Q, l) \cup Items(F, l)
        /\ Sorted(((H \o W) \o Q) \o F, l)
    BY <1>8, <1>15, <2>1, <2>2, Join, ZenonT(30)
  <2> QED
    BY <1>13, <1>15, <2>3, Zenon
<1>17. ASSUME NEW r PROVE r \in Items(Flow(l), l) <=> r \in {posted[l][n] : n \in DOMAIN posted[l]} \ Range(lost)
  <2>0. r \in Items(Flow(l), l) <=> r \in Items(H, l) \/ r \in Items(W, l) \/ r \in Items(Q, l) \/ r \in Items(F, l)
    BY <1>16, Zenon
  <2>1. r \in Items(Flow(l), l) => r \in Req /\ r.link = l
    <3>1. /\ \A i \in 1..Len(H) : H[i] \in Req
          /\ \A i \in 1..Len(Q) : Q[i] \in Req
          /\ \A i \in 1..Len(F) : F[i] \in Req
      BY <1>1, SeqElement, Zenon DEF H, Q, F
    <3> QED
      BY <1>2, <1>3, <1>6, <2>0, <3>1
  <2>2. ASSUME r.link = l PROVE r \in Items(Flow(l), l) <=> Stationed(r)
    <3>1. handled[r.link] = H /\ queue = Q /\ fifo[r.link] = F
      BY <2>2, Zenon DEF H, Q, F
    <3>2. Stationed(r) <=> \/ \E i \in 1..Len(H) : r = H[i]
                           \/ pc = "serve" /\ r = cur
                           \/ \E i \in 1..Len(Q) : r = Q[i]
                           \/ \E i \in 1..Len(F) : r = F[i]
      BY <3>1, Zenon DEF Stationed
    <3>3. /\ r \in Items(H, l) <=> \E i \in 1..Len(H) : r = H[i]
          /\ r \in Items(W, l) <=> pc = "serve" /\ r = cur
          /\ r \in Items(Q, l) <=> \E i \in 1..Len(Q) : r = Q[i]
          /\ r \in Items(F, l) <=> \E i \in 1..Len(F) : r = F[i]
      BY <1>3, <1>6, <2>2, Zenon
    <3> QED
      BY <2>0, <3>2, <3>3, Zenon
  <2>3. r \in {posted[l][n] : n \in DOMAIN posted[l]} <=> r \in Req /\ r.link = l /\ Posted(r)
    BY <1>1, <1>5 DEF FlowInv, PostedInv, Posted
  <2>4. r \in Req => (Stationed(r) <=> Posted(r) /\ r \notin Range(lost))
    BY Zenon DEF FlowInv, StationInv
  <2> QED
    BY <2>1, <2>2, <2>3, <2>4, Zenon
<1> QED
  BY <1>16, <1>17, Zenon

\* Across the interrupt and the loop, the driver executes every request a
\* client posted and the mailbox did not drop exactly once, in the order the
\* client posted them: at every moment those executed, the one at work, those
\* queued and those in the FIFO are the client's requests without gap, double
\* or swap.
THEOREM ExactlyOnceInOrderInvariant == Spec => []ExactlyOnceInOrder
<1>1. IInv /\ FlowInv => ExactlyOnceInOrder
  <2> SUFFICES ASSUME IInv, FlowInv, NEW l \in Link PROVE ExactlyOnceInOrder!(l)
    BY Zenon DEF ExactlyOnceInOrder
  <2>1. DOMAIN posted[l] = 1..Len(posted[l])
    BY SeqLen, Zenon DEF IInv, TypeInv
  <2>2. \A n \in DOMAIN posted[l] : posted[l][n].n = n
    BY <2>1, Zenon DEF FlowInv, PostedInv
  <2> QED
    BY <2>2, FlowOrder, ZenonT(30) DEF Items, Sorted
<1> QED
  BY <1>1, IpcInvariant, FlowInvariant, PTL

-----------------------------------------------------------------------------
(***************************************************************************)
(* The heap.                                                               *)
(***************************************************************************)

AtWork == IF pc \in {"unlink", "loop", "pop", "exit"} THEN 0 ELSE 1

LEMMA LeakCases ==
  NothingLeaks <=> /\ pc # "panic" => used = 2 * Len(queue) + Len(lost) + AtWork
                   /\ pc \notin {"copied", "unmap", "panic"} => window = {}
BY Zenon DEF NothingLeaks, AtWork

\* The steps that take and give back no memory.
LEMMA SameLeak ==
  ASSUME IInv', NothingLeaks, UNCHANGED <<queue, lost, used>>, pc' # "panic" => AtWork' = AtWork /\ pc # "panic"
  PROVE  NothingLeaks'
<1>1. pc' # "panic" => used' = 2 * Len(queue') + Len(lost') + AtWork'
  BY LeakCases, Zenon
<1> QED
  BY <1>1, Zenon DEF NothingLeaks, IInv, Windows, AtWork

LEMMA StepLeak == IInv /\ NothingLeaks /\ [Next]_vars => NothingLeaks'
<1> SUFFICES ASSUME IInv, NothingLeaks, [Next]_vars PROVE NothingLeaks'
  BY Zenon
<1>1. IInv'
  BY StepInv, SMTT(30)
<1>2. /\ lost \in Seq(Req) /\ Len(lost) \in Nat /\ queue \in Seq(Req) /\ Len(queue) \in Nat /\ used \in Int
      /\ pc # "panic" => used = 2 * Len(queue) + Len(lost) + AtWork
  BY SeqLen, LeakCases, Zenon DEF IInv, TypeInv
<1>3. CASE ClientSteps
  <2>1. UNCHANGED <<queue, lost, used, pc>>
    BY <1>3, Zenon DEF ClientSteps, Write, WriteRest, Ring, Collect, isrVars, mainVars
  <2> QED
    BY <1>1, <2>1, SameLeak, Zenon DEF AtWork
<1>4. CASE Running /\ ((\E l \in Link : IsrEnter(l)) \/ IsrLeave)
  <2>1. UNCHANGED <<queue, lost, used, pc>>
    BY <1>4, Zenon DEF IsrEnter, IsrLeave, mainVars
  <2> QED
    BY <1>1, <2>1, SameLeak, Zenon DEF AtWork
<1>5. CASE Running /\ (CriticalSectionEnter \/ QueuePop \/ Complete \/ IommuUnmap \/ CriticalSectionExit)
  <2>1. UNCHANGED <<queue, lost, used>> /\ pc # "panic" /\ AtWork' = AtWork
    BY <1>5 DEF CriticalSectionEnter, QueuePop, Complete, IommuUnmap, CriticalSectionExit, Main, isrVars, AtWork
  <2> QED
    BY <1>1, <2>1, SameLeak, Zenon
<1>6. CASE Running /\ Serve
  <2>1. UNCHANGED <<queue, lost, used>> /\ pc = "serve" /\ pc' \in {"free", "copied", "panic"}
    BY <1>6, SMTT(30) DEF Serve, Main, isrVars
  <2> QED
    BY <1>1, <2>1, SameLeak, Zenon DEF AtWork
<1>7. CASE Running /\ Free
  <2>1. UNCHANGED <<queue, lost>> /\ pc = "free" /\ pc' = "exit" /\ used' = used - 1
    BY <1>7, Zenon DEF Free, Main, isrVars
  <2>2. used' = 2 * Len(queue') + Len(lost') + AtWork'
    BY <1>2, <2>1 DEF AtWork
  <2> QED
    BY <1>1, <1>2, <2>1, <2>2, Zenon DEF NothingLeaks, IInv, Windows, AtWork
<1>8. CASE Running /\ QueueUnlink
  <2>1. /\ pc = "unlink" /\ pc' = "serve" /\ used' = used - 1 /\ lost' = lost
        /\ queue' = IF last THEN <<>> ELSE Tail(queue)
        /\ queue # <<>> /\ last = (Len(queue) = 1)
    BY <1>8, Zenon DEF QueueUnlink, Main, isrVars, IInv, TypeInv
  <2>2. Len(queue') = Len(queue) - 1
    <3>1. Len(Tail(queue)) = Len(queue) - 1
      BY <1>2, <2>1, SeqTail, Zenon
    <3>2. last => Len(queue') = 0
      BY <2>1, Zenon
    <3> QED
      <4>1. CASE last
        <5>1. Len(queue) = 1
          BY <2>1, <4>1, Zenon
        <5> QED
          BY <3>2, <4>1, <5>1
      <4>2. CASE ~last
        BY <2>1, <3>1, <4>2, Zenon
      <4> QED
        BY <4>1, <4>2
  <2>3. used' = 2 * Len(queue') + Len(lost') + AtWork'
    <3>1. AtWork = 0 /\ AtWork' = 1 /\ pc # "panic"
      BY <2>1, Zenon DEF AtWork
    <3>2. used = 2 * Len(queue) + Len(lost) + AtWork
      BY <1>2, <3>1, Zenon
    <3>3. Len(lost') = Len(lost) /\ used' = used - 1
      BY <2>1, Zenon
    <3> QED
      BY <1>2, <2>2, <3>1, <3>2, <3>3
  <2> QED
    BY <1>1, <1>2, <2>1, <2>3, Zenon DEF NothingLeaks, IInv, Windows, AtWork
<1>9. CASE Running /\ IsrHandle
  <2> DEFINE h == Head(fifo[isrLink])
  <2>1. /\ isr = "handle" /\ isrLink \in Link /\ ~MboxIsEmpty(isrLink) /\ ~MboxReadTimesOut(isrLink)
        /\ fifo[isrLink] \in Seq(Req) /\ fifo[isrLink] # <<>> /\ h \in Req /\ h = fifo[isrLink][1]
    BY <1>9, RequestIsThere, Zenon DEF IsrHandle
  <2>2. pc = "loop"
    BY <1>9, <2>1, Zenon DEF IInv, TypeInv, Running
  <2>3. CASE used = Blocks
    <3>1. pc' = "panic" /\ UNCHANGED <<queue, lost, used>>
      BY <1>9, <2>1, <2>3, Zenon DEF IsrHandle
    <3> QED
      BY <1>1, <3>1, SameLeak, Zenon
  <2>4. CASE used # Blocks
    <3>0. pc' \in {"loop", "panic"}
      BY <1>9, <2>1, <2>2, <2>4, Zenon DEF IsrHandle
    <3>1. \/ queue' = Append(queue, h) /\ used' = used + 2 /\ lost' = lost
          \/ lost' = Append(lost, h) /\ used' = used + 1 /\ queue' = queue
      BY <1>9, <2>1, <2>4, Zenon DEF IsrHandle, QueuePush
    <3>3. Len(Append(lost, h)) = Len(lost) + 1
      BY <1>2, <2>1, SeqAppend
    <3>4. Len(Append(queue, h)) = Len(queue) + 1
      BY <1>2, <2>1, SeqAppend
    <3>5. pc' # "panic" => used' = 2 * Len(queue') + Len(lost') + AtWork'
      <4>1. CASE queue' = Append(queue, h) /\ used' = used + 2 /\ lost' = lost
        BY <1>2, <2>2, <3>0, <3>4, <4>1 DEF AtWork
      <4>2. CASE lost' = Append(lost, h) /\ used' = used + 1 /\ queue' = queue
        BY <1>2, <2>2, <3>0, <3>3, <4>2 DEF AtWork
      <4> QED
        BY <3>1, <4>1, <4>2, Zenon
    <3> QED
      BY <1>1, <2>2, <3>0, <3>5, Zenon DEF NothingLeaks, IInv, Windows, AtWork
  <2> QED
    BY <2>3, <2>4
<1>10. CASE UNCHANGED vars
  <2>1. UNCHANGED <<queue, lost, used, pc>>
    BY <1>10, Zenon DEF vars, mainVars, isrVars
  <2> QED
    BY <1>1, <2>1, SameLeak, Zenon DEF AtWork
<1> QED
  BY <1>3, <1>4, <1>5, <1>6, <1>7, <1>8, <1>9, <1>10, Zenon DEF Next, IsrSteps, MainSteps

\* The heap holds the queue, the request at work and the dropped ones, nothing else.
THEOREM NothingLeaksInvariant == Spec => []NothingLeaks
<1>1. Init => IInv /\ NothingLeaks
  <2>1. Init => NothingLeaks
    BY SeqEmpty DEF Init, NothingLeaks
  <2> QED
    BY <2>1, InitInv
<1>2. IInv /\ NothingLeaks /\ [Next]_vars => IInv' /\ NothingLeaks'
  BY StepInv, StepLeak, Zenon
<1> QED
  BY <1>1, <1>2, PTL DEF Spec
=============================================================================
