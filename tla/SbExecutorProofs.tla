-------------------------- MODULE SbExecutorProofs --------------------------
(***************************************************************************)
(* Proofs about SbExecutor for any images, any damage of the flash, any    *)
(* number of certificates and any number of failing operations.            *)
(***************************************************************************)
EXTENDS SbExecutor, WellFoundedInduction, TLAPS

\* A set of numbers has a least one.
LEMMA Least ==
  ASSUME NEW T, T \subseteq Nat, T # {}
  PROVE  \E x \in T : \A y \in T : x <= y
<1>1. PICK x \in T : \A y \in T : ~(<<y, x>> \in OpToRel(<, Nat))
  BY NatLessThanWellFounded, WFMin, Zenon
<1>2. ASSUME NEW y \in T PROVE x <= y
  <2>1. ~(<<y, x>> \in OpToRel(<, Nat))
    BY <1>1, Zenon
  <2>2. ~(y < x)
    BY <2>1 DEF OpToRel
  <2> QED
    BY <2>2
<1> QED
  BY <1>2

\* The status of a sequence of CHECK_OK is that of a condition which holds.
LEMMA FirstErrorIsOne ==
  ASSUME NEW checks, NEW n \in Nat, DOMAIN checks = 1..n,
         NEW st, \A i \in 1..n : checks[i][1] # st,
         FirstError(checks) = st
  PROVE  st = "NO_ERR" /\ \A i \in 1..n : ~checks[i][2]
<1> DEFINE failing == {i \in DOMAIN checks : checks[i][2]}
<1>1. CASE failing = {}
  BY <1>1, Zenon DEF FirstError
<1>2. CASE failing # {}
  <2> DEFINE first == CHOOSE i \in failing : \A j \in failing : i <= j
  <2>1. failing \subseteq Nat
    OBVIOUS
  <2>2. \E i \in failing : \A j \in failing : i <= j
    BY <1>2, <2>1, Least, Zenon
  <2>3. first \in failing
    BY <2>2, Zenon
  <2>4. FirstError(checks) = checks[first][1]
    BY <1>2, Zenon DEF FirstError
  <2>5. first \in 1..n
    BY <2>3, Zenon
  <2> QED
    BY <2>4, <2>5, Zenon
<1> QED
  BY <1>1, <1>2

\* The statuses of the checks are errors.
Errors(checks, n) ==
  DOMAIN checks = 1..n /\ \A i \in 1..n : checks[i][1] \notin {"NO_ERR", "LOAD_FINISH"}

\* None of the lists of checks reports success.
LEMMA ErrorsOnly ==
  ASSUME NEW o, NEW d, NEW f
  PROVE  /\ Errors(HeaderChecks(o, d, f), 5) /\ Errors(RootChecks(o, d, f), 4)
         /\ Errors(NonRootChecks(o, d, f), 7) /\ Errors(KeyChecks(o, d, f), 4)
         /\ Errors(PayloadChecks(o), 3) /\ Errors(<<>>, 0)
<1>1. Errors(HeaderChecks(o, d, f), 5)
  BY DEF Errors, HeaderChecks
<1>2. Errors(RootChecks(o, d, f), 4)
  BY DEF Errors, RootChecks
<1>3. Errors(NonRootChecks(o, d, f), 7)
  BY DEF Errors, NonRootChecks
<1>4. Errors(KeyChecks(o, d, f), 4)
  BY DEF Errors, KeyChecks
<1>5. Errors(PayloadChecks(o), 3)
  BY DEF Errors, PayloadChecks
<1>6. Errors(<<>>, 0)
  BY DEF Errors
<1> QED
  BY <1>1, <1>2, <1>3, <1>4, <1>5, <1>6

\* Success is the failure of no check, and LOAD_FINISH is not a status of a check.
LEMMA NoError ==
  ASSUME NEW checks, NEW n \in Nat, Errors(checks, n)
  PROVE  /\ FirstError(checks) # "LOAD_FINISH"
         /\ FirstError(checks) = "NO_ERR" => \A i \in 1..n : ~checks[i][2]
<1>1. DOMAIN checks = 1..n
  BY Zenon DEF Errors
<1>2. \A i \in 1..n : checks[i][1] # "NO_ERR"
  BY Zenon DEF Errors
<1>3. \A i \in 1..n : checks[i][1] # "LOAD_FINISH"
  BY Zenon DEF Errors
<1>4. FirstError(checks) # "LOAD_FINISH"
  <2>1. FirstError(checks) = "LOAD_FINISH" => "LOAD_FINISH" = "NO_ERR"
    BY <1>1, <1>3, FirstErrorIsOne, Zenon
  <2> QED
    BY <2>1
<1>5. FirstError(checks) = "NO_ERR" => \A i \in 1..n : ~checks[i][2]
  BY <1>1, <1>2, FirstErrorIsOne, Zenon
<1> QED
  BY <1>4, <1>5

\* The checks of an object's type report errors only.
LEMMA TypeErrors ==
  ASSUME NEW o, NEW d, NEW f
  PROVE  \E n \in Nat : Errors(TypeChecks(o, d, f), n)
<1>1. CASE o.type = "root"
  <2>1. TypeChecks(o, d, f) = RootChecks(o, d, f)
    BY <1>1 DEF TypeChecks
  <2> QED
    BY <2>1, ErrorsOnly
<1>2. CASE o.type = "non_root"
  <2>1. TypeChecks(o, d, f) = NonRootChecks(o, d, f)
    BY <1>2 DEF TypeChecks
  <2> QED
    BY <2>1, ErrorsOnly
<1>3. CASE o.type = "key"
  <2>1. TypeChecks(o, d, f) = KeyChecks(o, d, f)
    BY <1>3 DEF TypeChecks
  <2> QED
    BY <2>1, ErrorsOnly
<1>4. CASE o.type \in Payload
  <2>1. TypeChecks(o, d, f) = PayloadChecks(o)
    BY <1>4 DEF TypeChecks, Payload
  <2> QED
    BY <2>1, ErrorsOnly
<1>5. CASE o.type \notin {"root", "non_root", "key"} \cup Payload
  <2>1. TypeChecks(o, d, f) = <<>>
    BY <1>5 DEF TypeChecks
  <2> QED
    BY <2>1, ErrorsOnly
<1> QED
  BY <1>1, <1>2, <1>3, <1>4, <1>5

\* An object's status is never LOAD_FINISH, which only payloads without return cause.
LEMMA NotFinish ==
  ASSUME NEW o, NEW d, NEW f
  PROVE  ObjectStatus(o, d, f) # "LOAD_FINISH"
<1>1. FirstError(HeaderChecks(o, d, f)) # "LOAD_FINISH"
  BY ErrorsOnly, NoError
<1>2. FirstError(TypeChecks(o, d, f)) # "LOAD_FINISH"
  BY TypeErrors, NoError
<1> QED
  BY <1>1, <1>2, Zenon DEF ObjectStatus

\* What an accepted object is known to be.
LEMMA Accepts ==
  ASSUME NEW o, NEW d, NEW f, ObjectStatus(o, d, f) = "NO_ERR"
  PROVE  /\ d # "id" /\ (d = "hash" => o.skip_header_hash)
         /\ o.type = "root" => X509CertVerify(o, d) /\ o.subject = otp.rotpk
         /\ o.type = "non_root" =>
              /\ X509CertVerify(o, d) /\ root # "" /\ Issuers(o) # {}
              /\ \A i \in DOMAIN certs : certs[i].id # o.id
         /\ o.type = "key" => d # "body"
         /\ o.type \in Payload /\ otp.force_sign => o.signed_obj
<1>1. FirstError(HeaderChecks(o, d, f)) = "NO_ERR" /\ FirstError(TypeChecks(o, d, f)) = "NO_ERR"
  BY Zenon DEF ObjectStatus
<1>2. d # "id" /\ (d = "hash" => o.skip_header_hash)
  <2>1. \A i \in 1..5 : ~HeaderChecks(o, d, f)[i][2]
    BY <1>1, ErrorsOnly, NoError
  <2>2. ~HeaderChecks(o, d, f)[2][2] /\ ~HeaderChecks(o, d, f)[5][2]
    BY <2>1
  <2>3. /\ HeaderChecks(o, d, f)[2][2] = (d = "id")
        /\ HeaderChecks(o, d, f)[5][2] = (d = "hash" /\ ~o.skip_header_hash)
    BY DEF HeaderChecks
  <2> QED
    BY <2>2, <2>3, Zenon
<1>3. o.type = "root" => X509CertVerify(o, d) /\ o.subject = otp.rotpk
  <2> SUFFICES ASSUME o.type = "root" PROVE X509CertVerify(o, d) /\ o.subject = otp.rotpk
    OBVIOUS
  <2>1. TypeChecks(o, d, f) = RootChecks(o, d, f)
    BY DEF TypeChecks
  <2>2. \A i \in 1..4 : ~RootChecks(o, d, f)[i][2]
    BY <1>1, <2>1, ErrorsOnly, NoError
  <2>3. ~RootChecks(o, d, f)[3][2] /\ ~RootChecks(o, d, f)[4][2]
    BY <2>2
  <2>4. /\ RootChecks(o, d, f)[3][2] = (~X509CertVerify(o, d))
        /\ RootChecks(o, d, f)[4][2] = (o.subject # otp.rotpk)
    BY DEF RootChecks
  <2> QED
    BY <2>3, <2>4, Zenon
<1>4. o.type = "non_root" =>
        /\ X509CertVerify(o, d) /\ root # "" /\ Issuers(o) # {}
        /\ \A i \in DOMAIN certs : certs[i].id # o.id
  <2> SUFFICES ASSUME o.type = "non_root"
               PROVE  /\ X509CertVerify(o, d) /\ root # "" /\ Issuers(o) # {}
                      /\ \A i \in DOMAIN certs : certs[i].id # o.id
    BY Zenon
  <2>1. TypeChecks(o, d, f) = NonRootChecks(o, d, f)
    BY DEF TypeChecks
  <2>2. \A i \in 1..7 : ~NonRootChecks(o, d, f)[i][2]
    BY <1>1, <2>1, ErrorsOnly, NoError
  <2>3. /\ ~NonRootChecks(o, d, f)[3][2] /\ ~NonRootChecks(o, d, f)[4][2]
        /\ ~NonRootChecks(o, d, f)[6][2] /\ ~NonRootChecks(o, d, f)[7][2]
    BY <2>2
  <2>4. /\ NonRootChecks(o, d, f)[3][2] = (root = "")
        /\ NonRootChecks(o, d, f)[4][2] = (\E i \in DOMAIN certs : certs[i].id = o.id)
        /\ NonRootChecks(o, d, f)[6][2] = (Issuers(o) = {})
        /\ NonRootChecks(o, d, f)[7][2] = (~X509CertVerify(o, d))
    BY DEF NonRootChecks
  <2>5. ~(root = "") /\ ~(\E i \in DOMAIN certs : certs[i].id = o.id)
    BY <2>3, <2>4, Zenon
  <2>6. ~(Issuers(o) = {}) /\ X509CertVerify(o, d)
    BY <2>3, <2>4, Zenon
  <2> QED
    BY <2>5, <2>6, Zenon
<1>5. o.type = "key" => d # "body"
  <2> SUFFICES ASSUME o.type = "key" PROVE d # "body"
    OBVIOUS
  <2>1. TypeChecks(o, d, f) = KeyChecks(o, d, f)
    BY DEF TypeChecks
  <2>2. \A i \in 1..4 : ~KeyChecks(o, d, f)[i][2]
    BY <1>1, <2>1, ErrorsOnly, NoError
  <2>3. ~KeyChecks(o, d, f)[4][2]
    BY <2>2
  <2>4. KeyChecks(o, d, f)[4][2] = (~o.signed_obj \/ ~SignatureVerify(d # "body", f))
    BY DEF KeyChecks
  <2>5. SignatureVerify(d # "body", f)
    BY <2>3, <2>4, Zenon
  <2> QED
    BY <2>5 DEF SignatureVerify
<1>6. o.type \in Payload /\ otp.force_sign => o.signed_obj
  <2> SUFFICES ASSUME o.type \in Payload PROVE ~(otp.force_sign /\ ~o.signed_obj)
    BY Zenon
  <2>1. TypeChecks(o, d, f) = PayloadChecks(o)
    BY DEF TypeChecks, Payload
  <2>2. \A i \in 1..3 : ~PayloadChecks(o)[i][2]
    BY <1>1, <2>1, ErrorsOnly, NoError
  <2>3. ~PayloadChecks(o)[2][2]
    BY <2>2
  <2>4. PayloadChecks(o)[2][2] = (otp.force_sign /\ ~o.signed_obj)
    BY DEF PayloadChecks
  <2> QED
    BY <2>3, <2>4, Zenon
<1> QED
  BY <1>2, <1>3, <1>4, <1>5, <1>6, Zenon
-----------------------------------------------------------------------------
(***************************************************************************)
(* image_handle: a payload with a digest or a signature is left in memory  *)
(* as it was built, or not at all.                                         *)
(***************************************************************************)
\* What an action does to the result `s' of the ones in front of it.
Acted(o, a, s, r) ==
  /\ r.status # "LOAD_FINISH"
  /\ r.status = "NO_ERR" =>
       /\ s.status = "NO_ERR"
       /\ a = "decipher" => r.text = Deciphered(o, s.text)
       /\ a # "decipher" => r.text = s.text
       /\ a \in {"check", "verification"} => s.text = Signed(o)

\* One action of the chain.
LEMMA ActResult ==
  ASSUME NEW o, NEW a \in {"decipher", "check", "verification", "nope"}, NEW f, NEW s,
         s.status # "LOAD_FINISH"
  PROVE  Acted(o, a, s, Act(o, a, f, s))
<1>1. CASE s.status # "NO_ERR"
  <2>1. Act(o, a, f, s) = s
    BY <1>1 DEF Act
  <2> QED
    BY <1>1, <2>1 DEF Acted
<1>2. CASE s.status = "NO_ERR" /\ a = "decipher"
  <2>1. Act(o, a, f, s) = [status |-> "NO_ERR", text |-> Deciphered(o, s.text)]
    BY <1>2 DEF Act
  <2> QED
    BY <1>2, <2>1 DEF Acted
<1>3. CASE s.status = "NO_ERR" /\ a = "check"
  <2>1. CASE s.text = Signed(o)
    <3>1. Act(o, a, f, s) = s
      BY <1>3, <2>1 DEF Act
    <3> QED
      BY <1>3, <2>1, <3>1 DEF Acted
  <2>2. CASE s.text # Signed(o)
    <3>1. Act(o, a, f, s) = [status |-> "PAYLOAD_BAD_HASH", text |-> s.text]
      BY <1>3, <2>2 DEF Act
    <3> QED
      BY <3>1 DEF Acted
  <2> QED
    BY <2>1, <2>2
<1>4. CASE s.status = "NO_ERR" /\ a = "verification"
  <2> DEFINE good == SignatureVerify(s.text = Signed(o) /\ endCert[1].id = o.sign_cert_id, f)
  <2>1. CASE good
    <3>1. s.text = Signed(o)
      BY <2>1 DEF SignatureVerify
    <3>2. Act(o, a, f, s) = s
      BY <1>4, <2>1 DEF Act
    <3> QED
      BY <1>4, <3>1, <3>2 DEF Acted
  <2>2. CASE ~good
    <3>1. Act(o, a, f, s) = [status |-> "PAYLOAD_BAD_SIGNATURE", text |-> s.text]
      BY <1>4, <2>2, Zenon DEF Act
    <3> QED
      BY <3>1 DEF Acted
  <2> QED
    BY <2>1, <2>2
<1>5. CASE s.status = "NO_ERR" /\ a = "nope"
  <2>1. Act(o, a, f, s) = s
    BY <1>5 DEF Act
  <2> QED
    BY <1>5, <2>1 DEF Acted
<1> QED
  BY <1>1, <1>2, <1>3, <1>4, <1>5

\* The order of the actions for payloads signed in either way.
LEMMA ChainActions ==
  ASSUME NEW o
  PROVE  /\ \A n \in 1..3 : Chain(o)[n] \in {"decipher", "check", "verification", "nope"}
         /\ o.sign_of_encrypted => /\ Chain(o)[1] = "verification" /\ Chain(o)[3] = "decipher"
                                   /\ Chain(o)[2] # "decipher"
         /\ ~o.sign_of_encrypted =>
              /\ Chain(o)[2] # "decipher" /\ Chain(o)[3] # "decipher"
              /\ o.checksum => Chain(o)[2] = "check"
              /\ o.signed_obj => Chain(o)[3] = "verification"
BY DEF Chain

\* The three actions together.
LEMMA ImageHandled ==
  ASSUME NEW o, NEW d, NEW f
  PROVE  /\ ImageHandle(o, d, f).status # "LOAD_FINISH"
         /\ Protected(o) /\ (o.sign_of_encrypted => key = o.key) =>
              /\ ImageHandle(o, d, f).status = "NO_ERR" => ImageHandle(o, d, f).text = "plain"
              /\ ImageHandle(o, d, f).text \in {"old", "zero", "plain"}
<1> DEFINE st0 == IF f \in {"signature", "data"} THEN "EINTERNAL" ELSE "NO_ERR"
           t0 == IF d = "body" THEN "damaged" ELSE IF o.encrypted THEN "cipher" ELSE "plain"
           s0 == [status |-> st0, text |-> t0]
           s1 == Act(o, Chain(o)[1], f, s0)
           s2 == Act(o, Chain(o)[2], f, s1)
           s3 == Act(o, Chain(o)[3], f, s2)
<1>1. ImageHandle(o, d, f) =
        IF s3.status = "NO_ERR" THEN s3
        ELSE [status |-> s3.status, text |-> IF f = "signature" THEN "old" ELSE "zero"]
  BY Zenon DEF ImageHandle
<1>2. s0.status # "LOAD_FINISH"
  OBVIOUS
<1> HIDE DEF st0, t0, s0
<1>3. Acted(o, Chain(o)[1], s0, s1)
  <2>1. Chain(o)[1] \in {"decipher", "check", "verification", "nope"}
    BY ChainActions
  <2>2. s0.status # "LOAD_FINISH"
    BY <1>2
  <2> QED
    BY <2>1, <2>2, ActResult
<1> HIDE DEF s1
<1>4. Acted(o, Chain(o)[2], s1, s2)
  <2>1. Chain(o)[2] \in {"decipher", "check", "verification", "nope"}
    BY ChainActions
  <2>2. s1.status # "LOAD_FINISH"
    BY <1>3 DEF Acted
  <2> QED
    BY <2>1, <2>2, ActResult
<1> HIDE DEF s2
<1>5. Acted(o, Chain(o)[3], s2, s3)
  <2>1. Chain(o)[3] \in {"decipher", "check", "verification", "nope"}
    BY ChainActions
  <2>2. s2.status # "LOAD_FINISH"
    BY <1>4 DEF Acted
  <2> QED
    BY <2>1, <2>2, ActResult
<1> HIDE DEF s3
<1>6. ASSUME Protected(o), o.sign_of_encrypted => key = o.key, s3.status = "NO_ERR"
      PROVE  s3.text = "plain"
  <2>1. CASE o.sign_of_encrypted
    <3>1. s0.text = "cipher" /\ s1.text = s0.text
      BY <1>3, <1>4, <1>5, <1>6, <2>1, ChainActions DEF Acted, Signed
    <3>2. s2.text = s1.text
      BY <1>4, <1>5, <1>6, <2>1, ChainActions DEF Acted
    <3>3. s3.text = Deciphered(o, s2.text)
      BY <1>5, <1>6, <2>1, ChainActions, Zenon DEF Acted
    <3> QED
      BY <1>6, <2>1, <3>1, <3>2, <3>3 DEF Deciphered
  <2>2. CASE ~o.sign_of_encrypted
    <3>1. s3.text = s2.text /\ s2.text = s1.text
      BY <1>4, <1>5, <1>6, <2>2, ChainActions, Zenon DEF Acted
    <3>2. CASE o.checksum
      BY <1>4, <1>5, <1>6, <2>2, <3>1, <3>2, ChainActions DEF Acted, Signed
    <3>3. CASE o.signed_obj
      BY <1>5, <1>6, <2>2, <3>1, <3>3, ChainActions DEF Acted, Signed
    <3> QED
      BY <1>6, <3>2, <3>3 DEF Protected
  <2> QED
    BY <2>1, <2>2
<1>7. CASE s3.status = "NO_ERR"
  BY <1>1, <1>6, <1>7
<1>8. CASE s3.status # "NO_ERR"
  BY <1>1, <1>5, <1>8 DEF Acted
<1> QED
  BY <1>7, <1>8
-----------------------------------------------------------------------------
(***************************************************************************)
(* The inductive invariant: everything in front of image_offset has passed *)
(* its checks and is in memory, and the key in use is that of the last key *)
(* object, which is the one the next payload was enciphered with.          *)
(***************************************************************************)

\* Object i of image im, with damage b and loaded into memory m, was accepted.
Accepted(im, b, m, i) ==
  /\ i <= Len(im) /\ b[i] # "id" /\ (b[i] = "hash" => im[i].skip_header_hash)
  /\ Protected(im[i]) => m[i] = "plain"
  /\ im[i].type \in Payload /\ otp.force_sign => im[i].signed_obj
  /\ im[i].type \in {"root", "non_root", "key"} => b[i] # "body"

TypeInv ==
  /\ flash \in [Slot -> Names] /\ bad \in [Slot -> [1..MaxLen -> Damage]]
  /\ offset \in Nat \ {0} /\ ran \in Seq(Nat) /\ mem = [i \in 1..MaxLen |-> mem[i]]
  /\ pass \in {"boot", "check", "checked", "load", "running", "panic"}

BeforeInv ==
  /\ pass \in {"boot", "check", "checked"} => ran = <<>> /\ \A i \in 1..MaxLen : mem[i] = "old"
  /\ pass \in {"boot", "checked"} => root = "" /\ certs = <<>> /\ endCert = <<>>

LoadInv ==
  pass \in {"load", "running", "panic"} =>
    /\ \A i \in 1..(offset - 1) : Accepted(Image, bad[Selected], mem, i)
    /\ LastKey(Image, offset, key)
    /\ (pass = "load" /\ ret = "LOAD_FINISH") => Accepted(Image, bad[Selected], mem, offset)
    /\ \A n \in 1..Len(ran) :
         \/ ran[n] < offset
         \/ pass = "running" /\ ran[n] = offset /\ Accepted(Image, bad[Selected], mem, offset)

ExecutorInv == TypeInv /\ BeforeInv /\ LoadInv /\ OnlyIntactCodeInMemory

\* At power-on nothing was loaded.
LEMMA InitInv == Init => ExecutorInv
<1> SUFFICES ASSUME Init PROVE ExecutorInv
  OBVIOUS
<1>1. PICK s \in Starts : flash = s.flash /\ bad = s.bad
  BY Zenon DEF Init
<1>2. flash \in [Slot -> Names] /\ bad \in [Slot -> [1..MaxLen -> Damage]]
  <2>1. s \in [flash : [Slot -> Names], bad : [Slot -> [1..MaxLen -> Damage]], otp : Otp]
    BY ExecutorAssumption, Zenon
  <2> HIDE DEF Slot, Names, Damage, Otp
  <2> QED
    BY <1>1, <2>1
<1> DEFINE m == [i \in 1..MaxLen |-> "old"]
<1>3. /\ pass = "boot" /\ offset = 1 /\ ran = <<>> /\ mem = m
      /\ root = "" /\ certs = <<>> /\ endCert = <<>>
  BY Zenon DEF Init
<1>4. mem = [i \in 1..MaxLen |-> mem[i]] /\ \A i \in 1..MaxLen : mem[i] = "old"
  BY <1>3, Zenon
<1>5. TypeInv /\ BeforeInv /\ LoadInv
  <2> HIDE DEF m
  <2>1. ran \in Seq(Nat) /\ offset \in Nat \ {0}
    <3>1. ran = <<>> /\ offset = 1
      BY <1>3, Zenon
    <3> QED
      BY <3>1
  <2>2. TypeInv
    BY <1>2, <1>3, <1>4, <2>1, Zenon DEF TypeInv
  <2>3. BeforeInv
    BY <1>3, <1>4, Zenon DEF BeforeInv
  <2>4. LoadInv
    BY <1>3, Zenon DEF LoadInv
  <2> QED
    BY <2>2, <2>3, <2>4
<1>6. OnlyIntactCodeInMemory
  BY <1>4, Zenon DEF OnlyIntactCodeInMemory
<1> QED
  BY <1>5, <1>6 DEF ExecutorInv

\* The calls in front of the loading pass.
LEMMA CheckInv ==
  ASSUME ExecutorInv, SblimgAbort \/ SkipCheck \/ \E f \in Failure :
           StartCheck(f) \/ \E held \in BOOLEAN : SblimgCheck(f, held)
  PROVE  ExecutorInv'
<1>1. /\ pass \in {"boot", "check"} /\ pass' \in {"check", "checked"}
      /\ UNCHANGED <<flash, bad, mem, ran>>
  BY Zenon DEF SblimgAbort, SkipCheck, StartCheck, SblimgCheck
<1>2. offset' \in Nat \ {0}
  <2>1. offset' = 1 \/ offset' = offset \/ offset' = offset + 1
    BY Zenon DEF SblimgAbort, SkipCheck, StartCheck, SblimgInit, SblimgCheck, Advance
  <2> QED
    BY <2>1 DEF ExecutorInv, TypeInv
<1>3. TypeInv'
  BY <1>1, <1>2 DEF ExecutorInv, TypeInv
<1>4. ran = <<>> /\ \A i \in 1..MaxLen : mem[i] = "old"
  BY <1>1, Zenon DEF ExecutorInv, BeforeInv
<1>5. pass' = "checked" => root' = "" /\ certs' = <<>> /\ endCert' = <<>>
  BY Zenon DEF ExecutorInv, BeforeInv, SblimgAbort, SkipCheck, StartCheck, SblimgCheck, CryptoFree,
         cryptoVars
<1>6. BeforeInv'
  BY <1>1, <1>4, <1>5, Zenon DEF BeforeInv
<1>7. LoadInv'
  BY <1>1 DEF LoadInv
<1>8. OnlyIntactCodeInMemory'
  BY <1>1, <1>4, Zenon DEF OnlyIntactCodeInMemory
<1> QED
  BY <1>3, <1>6, <1>7, <1>8 DEF ExecutorInv

\* The loading pass starts with nothing accepted.
LEMMA StartInv ==
  ASSUME ExecutorInv, NEW f \in Failure, StartLoad(f)
  PROVE  ExecutorInv'
<1>1. /\ pass = "checked" /\ pass' = "load" /\ offset' = 1 /\ ret' # "LOAD_FINISH"
      /\ UNCHANGED <<flash, bad, mem, ran>>
  BY DEF StartLoad, SblimgInit
<1>2. ran' = <<>> /\ \A i \in 1..MaxLen : mem'[i] = "old"
  BY <1>1, Zenon DEF ExecutorInv, BeforeInv
<1>3. TypeInv'
  BY <1>1 DEF ExecutorInv, TypeInv
<1>4. BeforeInv'
  BY <1>1 DEF BeforeInv
<1>5. LoadInv'
  BY <1>1, <1>2 DEF LoadInv, LastKey
<1>6. OnlyIntactCodeInMemory'
  BY <1>2, Zenon DEF OnlyIntactCodeInMemory
<1> QED
  BY <1>3, <1>4, <1>5, <1>6 DEF ExecutorInv

Loading == {"load", "running", "panic"}

\* The loading pass works on one image.
LEMMA SameImage ==
  ASSUME pass \in Loading, pass' \in Loading, UNCHANGED <<flash, bad, recovery>>
  PROVE  Image' = Image /\ (bad[Selected])' = bad[Selected]
<1>1. Selected' = Selected
  BY DEF Selected, Loading
<1> QED
  BY <1>1, Zenon DEF Image

\* What was accepted stays accepted as long as its place in memory is left alone.
LEMMA StaysAccepted ==
  ASSUME Image' = Image, (bad[Selected])' = bad[Selected], UNCHANGED otp,
         NEW i, mem'[i] = mem[i], Accepted(Image, bad[Selected], mem, i)
  PROVE  Accepted(Image, bad[Selected], mem, i)'
BY Zenon DEF Accepted, Protected

\* sblimg_finish starts the last payload or stops.
LEMMA FinishInv ==
  ASSUME ExecutorInv, NEW f \in Failure, SblimgFinish(f)
  PROVE  ExecutorInv'
<1>1. /\ pass = "load" /\ pass' \in {"running", "panic"}
      /\ UNCHANGED <<flash, bad, otp, recovery, offset, key, mem>>
      /\ ran' = ran \/ (pass' = "running" /\ ret = "LOAD_FINISH" /\ ran' = Append(ran, offset))
  BY Zenon DEF SblimgFinish
<1>2. Image' = Image /\ (bad[Selected])' = bad[Selected]
  BY <1>1, SameImage DEF Loading
<1>3. TypeInv'
  BY <1>1 DEF ExecutorInv, TypeInv
<1>4. BeforeInv'
  BY <1>1, Zenon DEF BeforeInv
<1>5. OnlyIntactCodeInMemory'
  BY <1>1, <1>2, Zenon DEF ExecutorInv, OnlyIntactCodeInMemory, Protected
<1>6. LoadInv'
  <2>1. \A i \in 1..(offset - 1) : Accepted(Image, bad[Selected], mem, i)
    BY <1>1 DEF ExecutorInv, LoadInv
  <2>2. \A i \in 1..(offset' - 1) : Accepted(Image, bad[Selected], mem, i)'
    BY <1>1, <1>2, <2>1, StaysAccepted, Zenon
  <2>3. LastKey(Image, offset, key)'
    BY <1>1, <1>2, Zenon DEF ExecutorInv, LoadInv, LastKey
  <2>4. ASSUME NEW n \in 1..Len(ran')
        PROVE  \/ ran'[n] < offset'
               \/ /\ pass' = "running" /\ ran'[n] = offset'
                  /\ Accepted(Image, bad[Selected], mem, offset)'
    <3>1. CASE n \in 1..Len(ran) /\ ran'[n] = ran[n]
      <4>1. ran[n] < offset
        BY <1>1, <3>1 DEF ExecutorInv, LoadInv
      <4> QED
        BY <1>1, <3>1, <4>1
    <3>2. CASE ran'[n] = offset /\ pass' = "running" /\ ret = "LOAD_FINISH"
      <4>1. Accepted(Image, bad[Selected], mem, offset)
        BY <1>1, <3>2 DEF ExecutorInv, LoadInv
      <4>2. Accepted(Image, bad[Selected], mem, offset)'
        BY <1>1, <1>2, <4>1, Zenon DEF Accepted, Protected
      <4> QED
        BY <1>1, <3>2, <4>2
    <3> QED
      <4>1. ran \in Seq(Nat) /\ offset \in Nat
        BY DEF ExecutorInv, TypeInv
      <4>2. CASE ran' = ran
        BY <3>1, <4>2
      <4>3. CASE pass' = "running" /\ ret = "LOAD_FINISH" /\ ran' = Append(ran, offset)
        <5>1. (n \in 1..Len(ran) /\ ran'[n] = ran[n]) \/ ran'[n] = offset
          BY <4>1, <4>3
        <5> QED
          BY <3>1, <3>2, <4>3, <5>1
      <4> QED
        BY <1>1, <4>2, <4>3
  <2> QED
    BY <1>1, <2>2, <2>3, <2>4, Zenon DEF LoadInv
<1> QED
  BY <1>3, <1>4, <1>5, <1>6 DEF ExecutorInv

\* What a call of sblimg_update does with the object o at image_offset, which
\* has the damage d: it loads a payload, or it leaves memory alone.
Loads(o, d, f) ==
  /\ ObjectStatus(o, d, f) = "NO_ERR" /\ o.type \in Payload
  /\ key' = key /\ mem' = [mem EXCEPT ![offset] = ImageHandle(o, d, f).text]
  /\ ret' \in {"NO_ERR", "LOAD_FINISH"} => ImageHandle(o, d, f).status = "NO_ERR"
  /\ ran' = ran \/ (ret' = "NO_ERR" /\ ran' = Append(ran, offset))

Reads(o, d, f) ==
  /\ ret' # "LOAD_FINISH" /\ mem' = mem /\ ran' = ran
  /\ ret' = "NO_ERR" => ObjectStatus(o, d, f) = "NO_ERR" /\ o.type \notin Payload
  /\ ret' = "NO_ERR" /\ o.type = "key" => key' = o.key
  /\ ~(ret' = "NO_ERR" /\ o.type = "key") => key' = key

\* A call of sblimg_update does the one or the other.
LEMMA UpdateIs ==
  ASSUME NEW f \in Failure, SblimgUpdate(f), NEW o, o = AtOffset, NEW d, d = BadAtOffset
  PROVE  Loads(o, d, f) \/ Reads(o, d, f)
<1> DEFINE st == ObjectStatus(o, d, f)
           img == ImageHandle(o, d, f)
<1>1. CASE st = "NO_ERR" /\ o.type \in Payload /\ ~o.fits
  <2>1. ret' = "EINVALIDDATA" /\ UNCHANGED <<key, mem, ran>>
    BY <1>1, Zenon DEF SblimgUpdate
  <2> QED
    BY <2>1 DEF Reads
<1>2. CASE st = "NO_ERR" /\ o.type \in Payload /\ o.fits
  <2>1. /\ mem' = [mem EXCEPT ![offset] = img.text] /\ UNCHANGED key
        /\ ret' \in Returned(IF img.status # "NO_ERR" THEN img.status
                             ELSE IF o.type = "no_return" THEN "LOAD_FINISH"
                             ELSE IF o.type = "with_return" /\ ~o.entry
                             THEN "EINVALIDDATA" ELSE "NO_ERR", f = "signature")
        /\ ran' = IF ret' = "NO_ERR" /\ o.type = "with_return" THEN Append(ran, offset) ELSE ran
    BY <1>2, Zenon DEF SblimgUpdate
  <2>2. img.status # "LOAD_FINISH"
    BY ImageHandled
  <2>3. ret' \in {"NO_ERR", "LOAD_FINISH"} => img.status = "NO_ERR"
    <3> HIDE DEF img
    <3> QED
      BY <2>1, <2>2 DEF Returned
  <2>4. ran' = ran \/ (ret' = "NO_ERR" /\ ran' = Append(ran, offset))
    BY <2>1, Zenon
  <2> QED
    BY <1>2, <2>1, <2>3, <2>4, Zenon DEF Loads
<1>3. CASE ~(st = "NO_ERR" /\ o.type \in Payload)
  <2>1. /\ ret' = st /\ UNCHANGED <<mem, ran>>
        /\ key' = IF o.type = "key" /\ st = "NO_ERR" THEN o.key ELSE key
    BY <1>3, Zenon DEF SblimgUpdate, Take
  <2>2. st # "LOAD_FINISH"
    BY NotFinish
  <2> HIDE DEF st
  <2>3. ret' = "NO_ERR" => st = "NO_ERR" /\ o.type \notin Payload
    BY <1>3, <2>1
  <2>4. /\ ret' = "NO_ERR" /\ o.type = "key" => key' = o.key
        /\ ~(ret' = "NO_ERR" /\ o.type = "key") => key' = key
    BY <2>1
  <2> QED
    BY <2>1, <2>2, <2>3, <2>4 DEF Reads, st
<1> QED
  BY <1>1, <1>2, <1>3

\* A payload that is signed as it is enciphered has its own key in front of it.
LEMMA KeyInFront ==
  ASSUME ExecutorInv, pass = "load", offset <= Len(Image),
         NEW o, o = Image[offset], o.type \in Payload, o.sign_of_encrypted
  PROVE  key = o.key
<1>1. PICK n \in Names : n = flash[Selected]
  <2>1. Selected \in Slot
    BY DEF Selected, Slot
  <2>2. flash \in [Slot -> Names]
    BY DEF ExecutorInv, TypeInv
  <2> QED
    BY <2>1, <2>2
<1>2. Image = Images[n]
  BY <1>1 DEF Image
<1>3. offset \in Nat \ {0} /\ LastKey(Image, offset, key)
  BY DEF ExecutorInv, TypeInv, LoadInv
<1>4. PICK m \in Nat : m = offset
  BY <1>3
<1>5. m \in DOMAIN Images[n]
  <2>1. Len(Images[n]) \in 1..MaxLen /\ DOMAIN Images[n] = 1..Len(Images[n]) /\ MaxLen \in Nat
    BY ExecutorAssumption, Zenon
  <2> QED
    BY <1>2, <1>3, <1>4, <2>1
<1>6. PICK j \in 1..(m - 1) :
        /\ Images[n][j].type = "key" /\ Images[n][j].key = Images[n][m].key
        /\ \A k \in (j + 1)..(m - 1) : Images[n][k].type # "key"
  <2>1. Images[n][m] = o
    BY <1>2, <1>4
  <2>2. Images[n][m].type \in Payload /\ Images[n][m].sign_of_encrypted
    BY <2>1
  <2> QED
    BY <1>5, <2>2, ExecutorAssumption, Zenon
<1>7. key = Images[n][j].key
  BY <1>2, <1>3, <1>4, <1>6 DEF LastKey
<1> QED
  BY <1>2, <1>4, <1>6, <1>7

\* sblimg_update accepts the object at image_offset or stops in front of it.
LEMMA UpdateInv ==
  ASSUME ExecutorInv, NEW f \in Failure, SblimgUpdate(f)
  PROVE  ExecutorInv'
<1>1. /\ pass = "load" /\ pass' = "load" /\ UNCHANGED <<flash, bad, otp, recovery>>
      /\ offset' = IF ret' = "NO_ERR" THEN offset + 1 ELSE offset
  BY Zenon DEF SblimgUpdate, Advance
<1>2. Image' = Image /\ (bad[Selected])' = bad[Selected]
  BY <1>1, SameImage DEF Loading
<1>3. PICK o : o = AtOffset
  OBVIOUS
<1>4. PICK d : d = BadAtOffset
  OBVIOUS
<1>5. Loads(o, d, f) \/ Reads(o, d, f)
  BY <1>3, <1>4, UpdateIs
<1>6. /\ offset \in Nat \ {0} /\ ran \in Seq(Nat) /\ mem = [i \in 1..MaxLen |-> mem[i]]
      /\ flash \in [Slot -> Names] /\ bad \in [Slot -> [1..MaxLen -> Damage]]
  BY DEF ExecutorInv, TypeInv
<1>7. /\ \A i \in 1..(offset - 1) : Accepted(Image, bad[Selected], mem, i)
      /\ LastKey(Image, offset, key)
      /\ \A n \in 1..Len(ran) : ran[n] < offset
  BY <1>1 DEF ExecutorInv, LoadInv
<1>8. \A i \in 1..(offset - 1) : mem'[i] = mem[i]
  <2>1. CASE Reads(o, d, f)
    BY <2>1 DEF Reads
  <2>2. CASE Loads(o, d, f)
    <3>1. mem' = [mem EXCEPT ![offset] = ImageHandle(o, d, f).text]
      BY <2>2 DEF Loads
    <3> QED
      BY <1>6, <3>1
  <2> QED
    BY <1>5, <2>1, <2>2
<1>9. ObjectStatus(o, d, f) = "NO_ERR" =>
        /\ offset <= Len(Image) /\ o = Image[offset] /\ d = bad[Selected][offset]
        /\ offset \in 1..MaxLen /\ d \in Damage
  <2> SUFFICES ASSUME ObjectStatus(o, d, f) = "NO_ERR"
               PROVE  /\ offset <= Len(Image) /\ o = Image[offset] /\ d = bad[Selected][offset]
                      /\ offset \in 1..MaxLen /\ d \in Damage
    OBVIOUS
  <2>1. d # "id"
    BY Accepts, Zenon
  <2>2. Selected \in Slot
    BY DEF Selected, Slot
  <2>3. Len(Image) \in 1..MaxLen /\ MaxLen \in Nat
    BY <1>6, <2>2, ExecutorAssumption, Zenon DEF Image
  <2>4. ~(offset > Len(Image))
    BY <1>4, <2>1 DEF BadAtOffset
  <2>5. offset <= Len(Image) /\ offset \in 1..MaxLen
    BY <1>6, <2>3, <2>4
  <2>6. o = Image[offset] /\ d = bad[Selected][offset]
    BY <1>3, <1>4, <2>4, <2>5 DEF AtOffset, BadAtOffset
  <2>7. bad[Selected][offset] \in Damage
    BY <1>6, <2>2, <2>5, Zenon
  <2> QED
    BY <2>5, <2>6, <2>7
<1>10. ASSUME Loads(o, d, f), Protected(o)
       PROVE  /\ ImageHandle(o, d, f).text \in {"old", "zero", "plain"}
              /\ ImageHandle(o, d, f).status = "NO_ERR" => ImageHandle(o, d, f).text = "plain"
  <2>1. offset <= Len(Image) /\ o = Image[offset] /\ o.type \in Payload
    BY <1>9, <1>10, Zenon DEF Loads
  <2>2. o.sign_of_encrypted => key = o.key
    BY <1>1, <2>1, KeyInFront
  <2> QED
    BY <1>10, <2>2, ImageHandled, Zenon
<1>11. ASSUME ret' \in {"NO_ERR", "LOAD_FINISH"}
       PROVE  /\ offset <= Len(Image) /\ o = Image[offset] /\ d # "id"
              /\ d = bad[Selected][offset] /\ (d = "hash" => o.skip_header_hash)
              /\ Protected(o) => mem'[offset] = "plain"
              /\ o.type \in Payload /\ otp.force_sign => o.signed_obj
              /\ o.type \in {"root", "non_root", "key"} => d # "body"
  <2>1. ObjectStatus(o, d, f) = "NO_ERR"
    BY <1>5, <1>11, Zenon DEF Loads, Reads
  <2>2. /\ d # "id" /\ (d = "hash" => o.skip_header_hash)
        /\ o.type \in Payload /\ otp.force_sign => o.signed_obj
        /\ o.type \in {"root", "non_root", "key"} => d # "body"
    <3>1. /\ d # "id" /\ (d = "hash" => o.skip_header_hash)
          /\ o.type \in Payload /\ otp.force_sign => o.signed_obj
          /\ o.type = "key" => d # "body"
      BY <2>1, Accepts, Zenon
    <3>2. o.type = "root" \/ o.type = "non_root" => X509CertVerify(o, d)
      BY <2>1, Accepts, Zenon
    <3>3. o.type = "root" \/ o.type = "non_root" => d # "body"
      BY <3>2, Zenon DEF X509CertVerify
    <3> QED
      BY <3>1, <3>3, Zenon
  <2>3. Protected(o) => mem'[offset] = "plain"
    <3> SUFFICES ASSUME Protected(o) PROVE mem'[offset] = "plain"
      OBVIOUS
    <3>1. Loads(o, d, f)
      BY <1>5, <1>11 DEF Reads, Protected
    <3>2. ImageHandle(o, d, f).text = "plain" /\ mem' = [mem EXCEPT ![offset] = "plain"]
      BY <1>10, <1>11, <3>1, Zenon DEF Loads
    <3> QED
      BY <1>6, <1>9, <2>1, <3>2
  <2> QED
    BY <1>9, <2>1, <2>2, <2>3, Zenon
<1>12. ret' \in {"NO_ERR", "LOAD_FINISH"} => Accepted(Image', (bad[Selected])', mem', offset)
  BY <1>1, <1>2, <1>11, Zenon DEF Accepted
<1>13. \A i \in 1..(offset - 1) : Accepted(Image', (bad[Selected])', mem', i)
  BY <1>1, <1>2, <1>7, <1>8, Zenon DEF Accepted
<1>14. LastKey(Image, offset, key)'
  <2>1. CASE ret' # "NO_ERR"
    <3>1. key' = key /\ offset' = offset
      BY <1>1, <1>5, <2>1 DEF Loads, Reads
    <3> QED
      BY <1>2, <1>7, <3>1, Zenon DEF LastKey
  <2>2. CASE ret' = "NO_ERR" /\ o.type = "key"
    <3>1. key' = o.key /\ offset' = offset + 1 /\ o = Image[offset]
      BY <1>1, <1>5, <1>11, <2>2, Zenon DEF Loads, Reads, Payload
    <3> QED
      BY <1>2, <1>6, <2>2, <3>1, SMTT(40) DEF LastKey
  <2>3. CASE ret' = "NO_ERR" /\ o.type # "key"
    <3>1. key' = key /\ offset' = offset + 1 /\ o = Image[offset]
      BY <1>1, <1>5, <1>11, <2>3, Zenon DEF Loads, Reads
    <3>2. ASSUME NEW j \in 1..offset, Image[j].type = "key",
                 \A i \in (j + 1)..offset : Image[i].type # "key"
          PROVE  key = Image[j].key
      <4>1. j # offset
        BY <2>3, <3>1, <3>2
      <4>2. j \in 1..(offset - 1) /\ \A i \in (j + 1)..(offset - 1) : Image[i].type # "key"
        BY <1>6, <3>2, <4>1
      <4> QED
        BY <1>7, <3>2, <4>2, Zenon DEF LastKey
    <3> QED
      BY <1>2, <1>6, <3>1, <3>2 DEF LastKey
  <2> QED
    BY <2>1, <2>2, <2>3
<1>15. ran' \in Seq(Nat) /\ \A n \in 1..Len(ran') : ran'[n] < offset'
  <2>1. CASE ran' = ran
    BY <1>1, <1>6, <1>7, <2>1
  <2>2. CASE ret' = "NO_ERR" /\ ran' = Append(ran, offset)
    <3>1. offset' = offset + 1
      BY <1>1, <2>2
    <3>2. ran' \in Seq(Nat) /\ Len(ran') = Len(ran) + 1
      BY <1>6, <2>2
    <3>3. ASSUME NEW n \in 1..Len(ran') PROVE ran'[n] < offset'
      BY <1>6, <1>7, <2>2, <3>1
    <3> QED
      BY <3>2, <3>3
  <2> QED
    BY <1>5, <2>1, <2>2 DEF Loads, Reads
<1>16. LoadInv'
  <2>1. \A i \in 1..(offset' - 1) : Accepted(Image', (bad[Selected])', mem', i)
    <3>1. CASE ret' = "NO_ERR"
      <4>1. \A i \in 1..(offset' - 1) : i \in 1..(offset - 1) \/ i = offset
        BY <1>1, <1>6, <3>1
      <4> QED
        BY <1>12, <1>13, <3>1, <4>1, Zenon
    <3>2. CASE ret' # "NO_ERR"
      BY <1>1, <1>13, <3>2
    <3> QED
      BY <3>1, <3>2, Zenon
  <2>2. ret' = "LOAD_FINISH" => Accepted(Image', (bad[Selected])', mem', offset')
    BY <1>1, <1>12
  <2> QED
    BY <1>1, <1>14, <1>15, <2>1, <2>2, Zenon DEF LoadInv, Accepted, Protected
<1>17. TypeInv'
  <2>1. offset' \in Nat \ {0}
    BY <1>1, <1>6
  <2>2. mem' = [i \in 1..MaxLen |-> mem'[i]]
    <3>1. CASE mem' = mem
      BY <1>6, <3>1
    <3>2. CASE Loads(o, d, f)
      <4>1. mem' = [mem EXCEPT ![offset] = ImageHandle(o, d, f).text]
        BY <3>2 DEF Loads
      <4> QED
        BY <1>6, <4>1, Zenon
    <3> QED
      BY <1>5, <3>1, <3>2 DEF Reads
  <2> QED
    BY <1>1, <1>6, <1>15, <2>1, <2>2, Zenon DEF TypeInv
<1>18. BeforeInv'
  BY <1>1 DEF BeforeInv
<1>19. OnlyIntactCodeInMemory'
  <2> SUFFICES ASSUME NEW i \in 1..MaxLen, i <= Len(Image), Protected(Image[i])
               PROVE  mem'[i] \in {"old", "zero", "plain"}
    BY <1>2, Zenon DEF OnlyIntactCodeInMemory, Protected
  <2>1. mem[i] \in {"old", "zero", "plain"}
    BY Zenon DEF ExecutorInv, OnlyIntactCodeInMemory
  <2>2. CASE mem' = mem
    BY <2>1, <2>2
  <2>3. CASE Loads(o, d, f)
    <3>1. /\ mem' = [mem EXCEPT ![offset] = ImageHandle(o, d, f).text]
          /\ ObjectStatus(o, d, f) = "NO_ERR"
      BY <2>3 DEF Loads
    <3>2. CASE i = offset
      <4>1. o = Image[i]
        BY <1>9, <3>1, <3>2, Zenon
      <4>2. ImageHandle(o, d, f).text \in {"old", "zero", "plain"}
        BY <1>10, <2>3, <4>1
      <4> QED
        BY <1>6, <3>1, <3>2, <4>2
    <3>3. CASE i # offset
      BY <1>6, <2>1, <3>1, <3>3
    <3> QED
      BY <3>2, <3>3
  <2> QED
    BY <1>5, <2>2, <2>3 DEF Reads
<1> QED
  BY <1>16, <1>17, <1>18, <1>19 DEF ExecutorInv
-----------------------------------------------------------------------------
\* For all images, damage and failing operations the invariant holds.
THEOREM ExecutorInvariant == Spec => []ExecutorInv
<1>1. ExecutorInv /\ [Next]_vars => ExecutorInv'
  <2> SUFFICES ASSUME ExecutorInv, [Next]_vars PROVE ExecutorInv'
    OBVIOUS
  <2>1. ASSUME NEW f \in Failure, Call(f) PROVE ExecutorInv'
    BY <2>1, CheckInv, StartInv, UpdateInv, FinishInv, Zenon DEF Call
  <2>2. CASE SblimgAbort \/ SkipCheck
    BY <2>2, CheckInv, Zenon
  <2>3. CASE UNCHANGED vars
    <3>1. /\ UNCHANGED <<flash, bad, otp, recovery, pass, ret, offset, mem, ran, key>>
          /\ UNCHANGED <<root, certs, endCert>>
      BY <2>3, Zenon DEF vars, cryptoVars
    <3>2. Image' = Image /\ (bad[Selected])' = bad[Selected]
      BY <3>1, Zenon DEF Image, Selected
    <3>3. TypeInv' /\ BeforeInv'
      BY <3>1, Zenon DEF ExecutorInv, TypeInv, BeforeInv
    <3>4. LoadInv'
      <4>1. \A i : Accepted(Image, bad[Selected], mem, i)' <=> Accepted(Image, bad[Selected], mem, i)
        BY <3>1, <3>2, Zenon DEF Accepted, Protected
      <4>2. Accepted(Image, bad[Selected], mem, offset)' <=> Accepted(Image, bad[Selected], mem, offset)
        BY <3>1, <3>2, Zenon DEF Accepted, Protected
      <4>3. LastKey(Image, offset, key)' <=> LastKey(Image, offset, key)
        BY <3>1, <3>2, Zenon DEF LastKey
      <4> QED
        BY <3>1, <4>1, <4>2, <4>3, Zenon DEF ExecutorInv, LoadInv
    <3>5. OnlyIntactCodeInMemory'
      BY <3>1, <3>2, Zenon DEF ExecutorInv, OnlyIntactCodeInMemory, Protected
    <3> QED
      BY <3>3, <3>4, <3>5 DEF ExecutorInv
  <2> QED
    BY <2>1, <2>2, <2>3, Zenon DEF Next
<1> QED
  BY <1>1, InitInv, PTL DEF Spec

\* Where a payload with a digest or a signature was to be loaded there is what
\* was there before, zeros, or the payload as it was built (image_handle), for
\* all images and all damage.
THEOREM OnlyIntactCodeInMemoryInvariant == Spec => []OnlyIntactCodeInMemory
<1>1. ExecutorInv => OnlyIntactCodeInMemory
  BY DEF ExecutorInv
<1> QED
  BY <1>1, ExecutorInvariant, PTL

\* Code is started only after everything in front of it was accepted, loaded and
\* checked in the same pass; damage of a header is noticed unless the header as it is
\* read says that its hash is not to be checked (sblimg_update, sblimg_finish).
THEOREM StartedCodeIsCompleteInvariant == Spec => []StartedCodeIsComplete
<1>1. ExecutorInv => StartedCodeIsComplete
  <2> SUFFICES ASSUME ExecutorInv, NEW n \in DOMAIN ran, NEW i \in 1..ran[n]
               PROVE  /\ bad[Selected][i] # "id"
                      /\ bad[Selected][i] = "hash" => Image[i].skip_header_hash
                      /\ Protected(Image[i]) => mem[i] = "plain"
                      /\ Image[i].type \in Payload /\ otp.force_sign => Image[i].signed_obj
                      /\ Image[i].type \in {"root", "non_root", "key"} => bad[Selected][i] # "body"
    BY Zenon DEF StartedCodeIsComplete
  <2>1. ran \in Seq(Nat) /\ offset \in Nat /\ pass \in Loading \cup {"boot", "check", "checked"}
    BY DEF ExecutorInv, TypeInv, Loading
  <2>2. n \in 1..Len(ran) /\ ran[n] \in Nat
    BY <2>1
  <2>3. pass \in Loading
    <3>1. ran # <<>>
      BY <2>1, <2>2
    <3> QED
      BY <2>1, <3>1, Zenon DEF ExecutorInv, BeforeInv
  <2>4. i \in 1..(offset - 1) \/ (i = offset /\ Accepted(Image, bad[Selected], mem, offset))
    <3>1. ran[n] < offset \/ (ran[n] = offset /\ Accepted(Image, bad[Selected], mem, offset))
      BY <2>2, <2>3, Zenon DEF ExecutorInv, LoadInv, Loading
    <3> QED
      BY <2>1, <2>2, <3>1
  <2>5. Accepted(Image, bad[Selected], mem, i)
    BY <2>3, <2>4 DEF ExecutorInv, LoadInv, Loading
  <2> QED
    BY <2>5, Zenon DEF Accepted
<1> QED
  BY <1>1, ExecutorInvariant, PTL
-----------------------------------------------------------------------------
(***************************************************************************)
(* The certificate chain.                                                  *)
(***************************************************************************)

\* Certificate c was issued by the root certificate r or by one of cs.
Issued(c, r, cs) ==
  \/ c.via = 0 /\ c.issuer = r
  \/ c.via \in 1..Len(cs) /\ c.issuer = cs[c.via].subject

TableInv ==
  /\ \E T : certs \in Seq(T)
  /\ \A i, j \in 1..Len(certs) : certs[i].id = certs[j].id => i = j
  /\ \A i \in 1..Len(certs) : certs[i].via \in 0..(i - 1)

IssuedInv ==
  /\ root # "" => root = otp.rotpk
  /\ certs # <<>> \/ endCert # <<>> => root # ""
  /\ \A i \in 1..Len(certs) : Issued(certs[i], root, certs)
  /\ \A i \in DOMAIN endCert : Issued(endCert[i], root, certs)

ChainInv == TableInv /\ (ret \in {"NO_ERR", "LOAD_FINISH"} => IssuedInv)

\* A set of numbers up to n has a greatest one.
LEMMA Greatest ==
  ASSUME NEW n \in Nat, NEW S, S \subseteq 1..n, S # {}
  PROVE  \E x \in S : \A y \in S : y <= x
<1> DEFINE T == {n - x : x \in S}
<1>1. T \subseteq Nat /\ T # {}
  <2>1. PICK x : x \in S
    OBVIOUS
  <2>2. n - x \in T
    BY <2>1
  <2>3. \A y \in S : n - y \in Nat
    OBVIOUS
  <2> QED
    BY <2>2, <2>3, Zenon
<1>2. PICK t \in T : \A u \in T : t <= u
  BY <1>1, Least, Zenon
<1>3. PICK x \in S : t = n - x
  OBVIOUS
<1>4. ASSUME NEW y \in S PROVE y <= x
  <2>1. n - y \in T
    OBVIOUS
  <2> HIDE DEF T
  <2>2. n - x <= n - y
    BY <1>2, <1>3, <2>1
  <2> QED
    BY <2>2
<1> QED
  BY <1>4

\* The issuer found for a certificate is one.
LEMMA ViaIssues ==
  ASSUME TableInv, NEW o, Issuers(o) # {}
  PROVE  Issued(Cert(o), root, certs) /\ Cert(o).via \in 0..Len(certs)
<1>1. Len(certs) \in Nat /\ DOMAIN certs = 1..Len(certs)
  BY DEF TableInv
<1>2. Cert(o).via = Via(o) /\ Cert(o).issuer = o.issuer
  BY DEF Cert
<1>3. CASE root = o.issuer
  <2>1. Via(o) = 0
    BY <1>3 DEF Via
  <2> QED
    BY <1>1, <1>2, <1>3, <2>1 DEF Issued
<1>4. CASE root # o.issuer
  <2>1. Issuers(o) = {i \in DOMAIN certs : certs[i].subject = o.issuer}
    BY <1>4, Zenon DEF Issuers
  <2>2. Issuers(o) \subseteq 1..Len(certs)
    BY <1>1, <2>1
  <2>3. \E x \in Issuers(o) : \A y \in Issuers(o) : y <= x
    BY <1>1, <2>2, Greatest, Zenon
  <2>4. Via(o) = CHOOSE i \in Issuers(o) : \A j \in Issuers(o) : j <= i
    BY <1>4, Zenon DEF Via
  <2>5. Via(o) \in Issuers(o)
    BY <2>3, <2>4, Zenon
  <2>6. Via(o) \in 1..Len(certs) /\ certs[Via(o)].subject = o.issuer
    BY <2>1, <2>2, <2>5, Zenon
  <2> QED
    BY <1>1, <1>2, <2>6 DEF Issued
<1> QED
  BY <1>3, <1>4

\* The empty sequence.
LEMMA EmptySeq == <<>> \in Seq(Nat) /\ 1..Len(<<>>) = {} /\ DOMAIN <<>> = {}
OBVIOUS

\* The state crypto_free leaves.
NoCerts == root = "" /\ certs = <<>> /\ endCert = <<>>

\* An empty table is a chain.
LEMMA EmptyChain == NoCerts => ChainInv
<1> SUFFICES ASSUME NoCerts PROVE ChainInv
  OBVIOUS
<1>1. certs \in Seq(Nat) /\ 1..Len(certs) = {} /\ DOMAIN endCert = {}
  BY EmptySeq, Zenon DEF NoCerts
<1>2. TableInv
  BY <1>1, Zenon DEF TableInv
<1>3. IssuedInv
  BY <1>1, Zenon DEF IssuedInv, NoCerts
<1> QED
  BY <1>2, <1>3 DEF ChainInv

\* A certificate that is accepted extends the chain, one that is not ends the
\* pass.
LEMMA TakeChain ==
  ASSUME ChainInv, ret = "NO_ERR", UNCHANGED otp, NEW o, NEW d, NEW f,
         Take(o, d, f), ret' = ObjectStatus(o, d, f)
  PROVE  ChainInv'
<1>1. TableInv /\ IssuedInv
  BY DEF ChainInv
<1>2. Len(certs) \in Nat /\ DOMAIN certs = 1..Len(certs)
  BY <1>1 DEF TableInv
<1>3. PICK c : c = Cert(o)
  OBVIOUS
<1>4. /\ root' = root \/ (o.type = "root" /\ root' = o.subject)
      /\ certs' = certs \/ (o.type = "non_root" /\ ret' = "NO_ERR" /\ certs' = Append(certs, c))
      /\ endCert' = endCert \/ (o.type = "non_root" /\ endCert' = <<c>>)
  BY <1>3, Zenon DEF Take
<1>5. ASSUME o.type = "non_root", ret' = "NO_ERR"
      PROVE  /\ root # "" /\ Issued(c, root, certs) /\ c.via \in 0..Len(certs)
             /\ \A i \in 1..Len(certs) : certs[i].id # c.id
  <2>1. root # "" /\ Issuers(o) # {} /\ \A i \in DOMAIN certs : certs[i].id # o.id
    <3>1. ObjectStatus(o, d, f) = "NO_ERR"
      BY <1>5
    <3>2. /\ X509CertVerify(o, d) /\ root # "" /\ Issuers(o) # {}
          /\ \A i \in DOMAIN certs : certs[i].id # o.id
      BY <1>5, <3>1, Accepts, ZenonT(30)
    <3> QED
      BY <3>2, Zenon
  <2>2. c.id = o.id
    BY <1>3 DEF Cert
  <2>3. Issued(c, root, certs) /\ c.via \in 0..Len(certs)
    BY <1>1, <1>3, <2>1, ViaIssues, Zenon
  <2> QED
    BY <1>2, <2>1, <2>2, <2>3, Zenon
<1>6. PICK T : certs \in Seq(T)
  BY <1>1, Zenon DEF TableInv
<1>7. TableInv'
  <2>1. CASE certs' = certs
    BY <1>1, <2>1, Zenon DEF TableInv
  <2>2. CASE o.type = "non_root" /\ ret' = "NO_ERR" /\ certs' = Append(certs, c)
    <3>1. certs' \in Seq(T \cup {c}) /\ Len(certs') = Len(certs) + 1
      BY <1>6, <2>2
    <3>2. (\A i \in 1..Len(certs) : certs'[i] = certs[i]) /\ certs'[Len(certs) + 1] = c
      BY <1>6, <2>2
    <3>5. \A i \in 1..Len(certs') : i \in 1..Len(certs) \/ i = Len(certs) + 1
      BY <1>2, <3>1
    <3>3. ASSUME NEW i \in 1..Len(certs'), NEW j \in 1..Len(certs'), certs'[i].id = certs'[j].id
          PROVE  i = j
      <4>1. CASE i \in 1..Len(certs) /\ j \in 1..Len(certs)
        BY <1>1, <3>2, <3>3, <4>1, Zenon DEF TableInv
      <4>2. CASE i = Len(certs) + 1 /\ j = Len(certs) + 1
        BY <4>2, Zenon
      <4>3. CASE i \in 1..Len(certs) /\ j = Len(certs) + 1
        BY <1>5, <2>2, <3>2, <3>3, <4>3, Zenon
      <4>4. CASE i = Len(certs) + 1 /\ j \in 1..Len(certs)
        BY <1>5, <2>2, <3>2, <3>3, <4>4, Zenon
      <4> QED
        BY <3>5, <4>1, <4>2, <4>3, <4>4, Zenon
    <3>4. ASSUME NEW i \in 1..Len(certs') PROVE certs'[i].via \in 0..(i - 1)
      <4>1. CASE i \in 1..Len(certs)
        BY <1>1, <3>2, <4>1, Zenon DEF TableInv
      <4>2. CASE i = Len(certs) + 1
        <5>1. certs'[i].via \in 0..Len(certs)
          BY <1>5, <2>2, <3>2, <4>2, Zenon
        <5>2. 0..Len(certs) = 0..(i - 1)
          BY <1>2, <4>2
        <5> QED
          BY <5>1, <5>2, Zenon
      <4> QED
        BY <3>5, <4>1, <4>2, Zenon
    <3> QED
      BY <3>1, <3>3, <3>4, Zenon DEF TableInv
  <2> QED
    BY <1>4, <2>1, <2>2
<1>8. ASSUME ret' = "NO_ERR" PROVE IssuedInv'
  <2>1. root' = root \/ (root' = otp.rotpk /\ o.type = "root")
    BY <1>4, <1>8, Accepts, ZenonT(60)
  <2>2. root' # "" => root' = otp'.rotpk
    BY <1>1, <2>1, Zenon DEF IssuedInv
  <2>3. root # "" => root' = root
    BY <1>1, <2>1, Zenon DEF IssuedInv
  <2>4. /\ Len(certs) <= Len(certs') /\ Len(certs') \in Nat
        /\ \A i \in 1..Len(certs) : certs'[i] = certs[i]
    <3>1. CASE certs' = certs
      BY <1>2, <3>1
    <3>2. CASE certs' = Append(certs, c)
      BY <1>6, <3>2
    <3> QED
      BY <1>4, <3>1, <3>2, Zenon
  <2>5. ASSUME NEW e, Issued(e, root, certs), root # "" PROVE Issued(e, root', certs')
    <3>1. CASE e.via = 0 /\ e.issuer = root
      BY <2>3, <2>5, <3>1, Zenon DEF Issued
    <3>2. CASE e.via \in 1..Len(certs) /\ e.issuer = certs[e.via].subject
      <4>1. 1..Len(certs) \subseteq 1..Len(certs')
        BY <1>2, <2>4
      <4>2. e.via \in 1..Len(certs') /\ e.issuer = certs'[e.via].subject
        BY <2>4, <3>2, <4>1, Zenon
      <4> QED
        BY <4>2, Zenon DEF Issued
    <3> QED
      BY <2>5, <3>1, <3>2, Zenon DEF Issued
  <2>6. certs' # <<>> \/ endCert' # <<>> => root # ""
    BY <1>1, <1>4, <1>5, <1>8, Zenon DEF IssuedInv
  <2>7. \A i \in 1..Len(certs') : Issued(certs'[i], root', certs')
    <3> SUFFICES ASSUME NEW i \in 1..Len(certs') PROVE Issued(certs'[i], root', certs')
      BY Zenon
    <3>1. root # ""
      BY <2>6, EmptySeq, Zenon
    <3>2. CASE i \in 1..Len(certs)
      BY <1>1, <2>4, <2>5, <3>1, <3>2, Zenon DEF IssuedInv
    <3>3. CASE o.type = "non_root" /\ certs' = Append(certs, c) /\ i = Len(certs) + 1
      <4>1. certs'[i] = c
        BY <1>6, <3>3
      <4> QED
        BY <1>5, <1>8, <2>5, <3>1, <3>3, <4>1, Zenon
    <3>4. certs' = Append(certs, c) => Len(certs') = Len(certs) + 1
      BY <1>6
    <3> QED
      BY <1>2, <1>4, <3>2, <3>3, <3>4
  <2>8. \A i \in DOMAIN endCert' : Issued(endCert'[i], root', certs')
    <3>1. CASE endCert' = endCert
      <4>1. \A i \in DOMAIN endCert : root # "" /\ Issued(endCert[i], root, certs)
        BY <1>1, EmptySeq, Zenon DEF IssuedInv
      <4> QED
        BY <2>5, <3>1, <4>1, Zenon
    <3>2. CASE o.type = "non_root" /\ endCert' = <<c>>
      <4>1. \A i \in DOMAIN endCert' : endCert'[i] = c
        BY <3>2
      <4> QED
        BY <1>5, <1>8, <2>5, <3>2, <4>1, Zenon
    <3> QED
      BY <1>4, <3>1, <3>2
  <2> QED
    BY <2>2, <2>3, <2>6, <2>7, <2>8, Zenon DEF IssuedInv
<1>9. ret' # "LOAD_FINISH"
  BY NotFinish
<1> QED
  BY <1>7, <1>8, <1>9 DEF ChainInv

\* Every call keeps the chain.
LEMMA ChainStep ==
  ASSUME ExecutorInv, ChainInv, [Next]_vars
  PROVE  ChainInv'
<1>1. CASE SblimgAbort \/ \E f \in Failure : SblimgFinish(f)
  <2>1. NoCerts'
    BY <1>1, Zenon DEF SblimgAbort, SblimgFinish, CryptoFree, NoCerts
  <2> QED
    BY <2>1, EmptyChain, PTL
<1>2. CASE SkipCheck \/ \E f \in Failure : StartCheck(f) \/ StartLoad(f)
  <2>1. pass \in {"boot", "checked"} /\ UNCHANGED <<root, certs, endCert>>
    BY <1>2, Zenon DEF SkipCheck, StartCheck, StartLoad, cryptoVars
  <2>2. NoCerts'
    BY <2>1, Zenon DEF ExecutorInv, BeforeInv, NoCerts
  <2> QED
    BY <2>2, EmptyChain, PTL
<1>3. ASSUME NEW f \in Failure, SblimgUpdate(f) \/ \E held \in BOOLEAN : SblimgCheck(f, held)
      PROVE  ChainInv'
  <2>1. ret = "NO_ERR" /\ UNCHANGED otp
    BY <1>3, Zenon DEF SblimgUpdate, SblimgCheck
  <2>2. \/ UNCHANGED <<root, certs, endCert>>
        \/ /\ ret' = ObjectStatus(AtOffset, BadAtOffset, f)
           /\ Take(AtOffset, BadAtOffset, f)
    BY <1>3, Zenon DEF SblimgUpdate, SblimgCheck, cryptoVars
  <2>3. CASE UNCHANGED <<root, certs, endCert>>
    <3>1. TableInv /\ IssuedInv
      BY <2>1 DEF ChainInv
    <3>2. TableInv'
      BY <2>3, <3>1, Zenon DEF TableInv
    <3>3. IssuedInv'
      BY <2>1, <2>3, <3>1, Zenon DEF IssuedInv, Issued
    <3> QED
      BY <3>2, <3>3 DEF ChainInv
  <2>4. CASE ret' = ObjectStatus(AtOffset, BadAtOffset, f) /\ Take(AtOffset, BadAtOffset, f)
    <3>1. PICK o : o = AtOffset
      OBVIOUS
    <3>2. PICK d : d = BadAtOffset
      OBVIOUS
    <3>3. ret' = ObjectStatus(o, d, f) /\ Take(o, d, f)
      BY <2>4, <3>1, <3>2
    <3> QED
      BY <2>1, <3>3, TakeChain, Zenon
  <2> QED
    BY <2>2, <2>3, <2>4
<1>4. CASE UNCHANGED vars
  BY <1>4, Zenon DEF vars, cryptoVars, ChainInv, TableInv, IssuedInv, Issued
<1> QED
  BY <1>1, <1>2, <1>3, <1>4, Zenon DEF Next, Call

\* Every certificate in use was issued by the root certificate of the OTP or by
\* one accepted before it, for any number of certificates (the NON_ROOT_CERTIFICATE
\* cases of sblimg_check and sblimg_update).
THEOREM ChainAnchoredInvariant == Spec => []ChainAnchored
<1>1. Init => ChainInv
  <2>1. Init => NoCerts
    BY Zenon DEF Init, NoCerts
  <2> QED
    BY <2>1, EmptyChain, Zenon
<1>2. ChainInv => ChainAnchored
  <2> SUFFICES ASSUME ChainInv PROVE ChainAnchored
    OBVIOUS
  <2>1. Len(certs) \in Nat /\ DOMAIN certs = 1..Len(certs)
    BY DEF ChainInv, TableInv
  <2>2. \A i, j \in DOMAIN certs : certs[i].id = certs[j].id => i = j
    BY <2>1, Zenon DEF ChainInv, TableInv
  <2>3. \A i \in DOMAIN certs : certs[i].via < i
    BY <2>1 DEF ChainInv, TableInv
  <2>4. ASSUME ret \in {"NO_ERR", "LOAD_FINISH"}
        PROVE  /\ certs # <<>> \/ endCert # <<>> => root = otp.rotpk
               /\ \A c \in {certs[i] : i \in DOMAIN certs} \cup {endCert[i] : i \in DOMAIN endCert} :
                    IF c.via = 0 THEN c.issuer = root
                    ELSE c.via \in DOMAIN certs /\ c.issuer = certs[c.via].subject
    <3>1. IssuedInv
      BY <2>4 DEF ChainInv
    <3>2. certs # <<>> \/ endCert # <<>> => root = otp.rotpk
      BY <3>1, Zenon DEF IssuedInv
    <3>3. ASSUME NEW c, Issued(c, root, certs)
          PROVE  IF c.via = 0 THEN c.issuer = root
                 ELSE c.via \in DOMAIN certs /\ c.issuer = certs[c.via].subject
      BY <2>1, <3>3 DEF Issued
    <3>4. \A c \in {certs[i] : i \in DOMAIN certs} \cup {endCert[i] : i \in DOMAIN endCert} :
            Issued(c, root, certs)
      BY <2>1, <3>1, Zenon DEF IssuedInv
    <3> QED
      BY <3>2, <3>3, <3>4, Zenon
  <2> QED
    BY <2>2, <2>3, <2>4, Zenon DEF ChainAnchored
<1> QED
  BY <1>1, <1>2, ChainStep, ExecutorInvariant, PTL DEF Spec
-----------------------------------------------------------------------------
(***************************************************************************)
(* A sound image is loaded.                                                *)
(***************************************************************************)

\* If no check fails there is no error.
LEMMA AllPassed ==
  ASSUME NEW checks, NEW n \in Nat, DOMAIN checks = 1..n, \A i \in 1..n : ~checks[i][2]
  PROVE  FirstError(checks) = "NO_ERR"
<1>1. {i \in DOMAIN checks : checks[i][2]} = {}
  BY Zenon
<1> QED
  BY <1>1, Zenon DEF FirstError

\* The CA certificates in front of object n of image im.
CasOf(im, n) == {j \in 1..(n - 1) : IsCa(im[j])}

\* The image is made for this board.
MadeFor(im) ==
  \A i \in DOMAIN im :
    /\ im[i].type = "root" => otp.rotpk = im[i].subject
    /\ im[i].type \in Payload =>
         (otp.force_sign => im[i].signed_obj) /\ (otp.force_encrypt => im[i].encrypted)

\* The certificates in use are those in front of object n of image im.
RootTaken(im, n) == \A j \in 1..(n - 1) : im[j].type = "root" => root = im[j].subject

CasTaken(im, n) ==
  /\ \A c : CountsCas(im, c) => Len(certs) = c[n]
  /\ \A i \in DOMAIN certs : \E j \in CasOf(im, n) : certs[i].id = im[j].id
  /\ \A j \in CasOf(im, n) : \E i \in DOMAIN certs :
       certs[i].id = im[j].id /\ certs[i].subject = im[j].subject

EndTaken(im, n) ==
  /\ endCert # <<>> => \E j \in 1..(n - 1) : IsEnd(im[j])
  /\ \A j \in 1..(n - 1) : IsEnd(im[j]) =>
       endCert # <<>> /\ 1 \in DOMAIN endCert /\ endCert[1].id = im[j].id

Taken(im, n) == RootTaken(im, n) /\ CasTaken(im, n) /\ EndTaken(im, n)

\* A root certificate of the image is accepted.
LEMMA RootPasses ==
  ASSUME TableInv, NEW im, NEW n \in DOMAIN im, WellFormed(im), MadeFor(im), Taken(im, n),
         im[n].type = "root"
  PROVE  FirstError(RootChecks(im[n], "none", "none")) = "NO_ERR"
<1>1. PICK o : o = im[n]
  OBVIOUS
<1>2. /\ o.subject = o.issuer /\ {j \in 1..(n - 1) : IsCa(im[j])} = {}
      /\ o.type = "root"
  BY <1>1, Zenon DEF WellFormed
<1>3. otp.rotpk = o.subject
  BY <1>1, Zenon DEF MadeFor
<1>4. certs = <<>>
  <2>1. PICK T : certs \in Seq(T)
    BY Zenon DEF TableInv
  <2>2. DOMAIN certs = {}
    BY <1>2, Zenon DEF Taken, CasTaken, CasOf
  <2> QED
    BY <2>1, <2>2
<1>5. X509CertVerify(o, "none")
  BY <1>2 DEF X509CertVerify
<1>6. /\ DOMAIN RootChecks(o, "none", "none") = 1..4
      /\ RootChecks(o, "none", "none")[1][2] = (certs # <<>>)
      /\ RootChecks(o, "none", "none")[2][2] = ("none" = "crypto")
      /\ RootChecks(o, "none", "none")[3][2] = (~X509CertVerify(o, "none"))
      /\ RootChecks(o, "none", "none")[4][2] = (o.subject # otp.rotpk)
  BY DEF RootChecks
<1>7. \A i \in 1..4 : ~RootChecks(o, "none", "none")[i][2]
  <2>1. /\ ~RootChecks(o, "none", "none")[1][2] /\ ~RootChecks(o, "none", "none")[2][2]
        /\ ~RootChecks(o, "none", "none")[3][2] /\ ~RootChecks(o, "none", "none")[4][2]
    <3>1. "none" # "crypto"
      OBVIOUS
    <3> QED
      BY <1>3, <1>4, <1>5, <1>6, <3>1, Zenon
  <2>2. \A i \in 1..4 : i = 1 \/ i = 2 \/ i = 3 \/ i = 4
    OBVIOUS
  <2> QED
    BY <2>1, <2>2, Zenon
<1> QED
  BY <1>1, <1>6, <1>7, AllPassed, Zenon

\* What the image says of a certificate holds of the table.
LEMMA TableFits ==
  ASSUME TableInv, NEW im, Len(im) \in Nat, DOMAIN im = 1..Len(im), NEW n \in DOMAIN im,
         WellFormed(im), Taken(im, n), NEW o, o = im[n], o.type = "non_root"
  PROVE  /\ endCert = <<>> /\ Len(certs) < MaxCa /\ root # "" /\ Issuers(o) # {}
         /\ \A i \in DOMAIN certs : certs[i].id # o.id
<1>1. /\ \E j \in 1..(n - 1) : im[j].type = "root"
      /\ \E j \in 1..(n - 1) : (im[j].type = "root" \/ IsCa(im[j])) /\ im[j].subject = o.issuer
      /\ \A j \in 1..(n - 1) : ~IsEnd(im[j])
      /\ \A j \in CasOf(im, n) : im[j].id # o.id
  BY ZenonT(30) DEF WellFormed, CasOf
<1>2. endCert = <<>>
  BY <1>1, Zenon DEF Taken, EndTaken
<1>3. Len(certs) < MaxCa
  <2>1. \E c : CountsCas(im, c) /\ c[n] < MaxCa
    BY Zenon DEF WellFormed
  <2> QED
    BY <2>1, Zenon DEF Taken, CasTaken
<1>4. \A i \in DOMAIN certs : certs[i].id # o.id
  BY <1>1, ZenonT(30) DEF Taken, CasTaken
<1>5. root # ""
  <2>1. PICK j \in 1..(n - 1) : im[j].type = "root"
    BY <1>1, Zenon
  <2>2. j \in DOMAIN im
    OBVIOUS
  <2>3. im[j].subject # ""
    BY <2>1, <2>2, Zenon DEF WellFormed
  <2> QED
    BY <2>1, <2>3, Zenon DEF Taken, RootTaken
<1>6. Issuers(o) # {}
  <2>1. PICK j \in 1..(n - 1) : (im[j].type = "root" \/ IsCa(im[j])) /\ im[j].subject = o.issuer
    BY <1>1, Zenon
  <2>2. CASE im[j].type = "root"
    <3>1. root = o.issuer
      BY <2>1, <2>2, Zenon DEF Taken, RootTaken
    <3> QED
      BY <3>1 DEF Issuers
  <2>3. CASE IsCa(im[j])
    <3>1. \E i \in DOMAIN certs : certs[i].subject = o.issuer
      BY <2>1, <2>3, ZenonT(30) DEF Taken, CasTaken, CasOf
    <3> QED
      BY <3>1, Zenon DEF Issuers
  <2> QED
    BY <2>1, <2>2, <2>3
<1> QED
  BY <1>2, <1>3, <1>4, <1>5, <1>6, Zenon

\* A certificate of the image is accepted.
LEMMA NonRootPasses ==
  ASSUME TableInv, NEW im, Len(im) \in Nat, DOMAIN im = 1..Len(im), NEW n \in DOMAIN im,
         WellFormed(im), Taken(im, n), im[n].type = "non_root"
  PROVE  FirstError(NonRootChecks(im[n], "none", "none")) = "NO_ERR"
<1>1. PICK o : o = im[n]
  OBVIOUS
<1>2. /\ endCert = <<>> /\ Len(certs) < MaxCa /\ root # "" /\ Issuers(o) # {}
      /\ \A i \in DOMAIN certs : certs[i].id # o.id
  BY <1>1, TableFits, Zenon
<1>3. X509CertVerify(o, "none")
  <2>1. o.subject # o.issuer /\ o.type = "non_root"
    BY <1>1, Zenon DEF WellFormed
  <2> QED
    BY <2>1 DEF X509CertVerify
<1>4. ~(Len(certs) >= MaxCa)
  <2>1. Len(certs) \in Nat /\ MaxCa \in Nat
    BY ExecutorAssumption DEF TableInv
  <2>2. Len(certs) < MaxCa
    BY <1>2, Zenon
  <2> QED
    BY <2>1, <2>2
<1> DEFINE cs == NonRootChecks(o, "none", "none")
<1>5. /\ DOMAIN cs = 1..7
      /\ cs[1][2] = (endCert # <<>>) /\ cs[2][2] = (Len(certs) >= MaxCa) /\ cs[3][2] = (root = "")
      /\ cs[4][2] = (\E i \in DOMAIN certs : certs[i].id = o.id)
      /\ cs[5][2] = ("none" = "crypto")
      /\ cs[6][2] = (Issuers(o) = {}) /\ cs[7][2] = (~X509CertVerify(o, "none"))
  BY DEF NonRootChecks
<1> HIDE DEF cs
<1>6. ~cs[1][2] /\ ~cs[2][2] /\ ~cs[3][2] /\ ~cs[4][2]
  BY <1>2, <1>4, <1>5, Zenon
<1>7. ~cs[5][2] /\ ~cs[6][2] /\ ~cs[7][2]
  BY <1>2, <1>3, <1>5, Zenon
<1>8. \A i \in 1..7 : i = 1 \/ i = 2 \/ i = 3 \/ i = 4 \/ i = 5 \/ i = 6 \/ i = 7
  OBVIOUS
<1>9. \A i \in 1..7 : ~cs[i][2]
  BY <1>6, <1>7, <1>8, Zenon
<1>10. FirstError(cs) = "NO_ERR"
  BY <1>5, <1>9, AllPassed, Zenon
<1> QED
  BY <1>1, <1>10 DEF cs

\* A key of the image is accepted.
LEMMA KeyPasses ==
  ASSUME NEW im, NEW n \in DOMAIN im, WellFormed(im), Taken(im, n), im[n].type = "key"
  PROVE  FirstError(KeyChecks(im[n], "none", "none")) = "NO_ERR"
<1>1. PICK o : o = im[n]
  OBVIOUS
<1>2. /\ o.signed_obj /\ \E j \in 1..(n - 1) : IsEnd(im[j])
      /\ \E j \in 1..(n - 1) : im[j].type = "non_root" /\ im[j].id = o.sign_cert_id
  BY <1>1, Zenon DEF WellFormed
<1>3. endCert # <<>>
  BY <1>2, Zenon DEF Taken, EndTaken
<1>4. SignedBy(o) # {}
  <2>1. PICK j \in 1..(n - 1) : im[j].type = "non_root" /\ im[j].id = o.sign_cert_id
    BY <1>2, Zenon
  <2>2. CASE IsCa(im[j])
    <3>1. \E i \in DOMAIN certs : certs[i].id = o.sign_cert_id
      BY <2>1, <2>2, ZenonT(30) DEF Taken, CasTaken, CasOf
    <3> QED
      BY <3>1, Zenon DEF SignedBy
  <2>3. CASE IsEnd(im[j])
    <3>1. \E i \in DOMAIN endCert : endCert[i].id = o.sign_cert_id
      BY <2>1, <2>3, Zenon DEF Taken, EndTaken
    <3> QED
      BY <3>1, Zenon DEF SignedBy
  <2> QED
    BY <2>1, <2>2, <2>3, Zenon DEF IsCa, IsEnd
<1>5. SignatureVerify("none" # "body", "none")
  BY DEF SignatureVerify
<1> DEFINE cs == KeyChecks(o, "none", "none")
<1>6. /\ DOMAIN cs = 1..4
      /\ cs[1][2] = (otp.force_sign /\ endCert = <<>>)
      /\ cs[2][2] = (otp.force_sign /\ ~o.signed_obj)
      /\ cs[3][2] = (SignedBy(o) = {})
      /\ cs[4][2] = (~o.signed_obj \/ ~SignatureVerify("none" # "body", "none"))
  <2>1. DOMAIN cs = 1..4
    BY DEF KeyChecks
  <2>2. cs[1][2] = (otp.force_sign /\ endCert = <<>>) /\ cs[2][2] = (otp.force_sign /\ ~o.signed_obj)
    BY Zenon DEF KeyChecks
  <2>3. cs[3][2] = (SignedBy(o) = {})
    BY Zenon DEF KeyChecks
  <2>4. cs[4][2] = (~o.signed_obj \/ ~SignatureVerify("none" # "body", "none"))
    BY Zenon DEF KeyChecks
  <2> QED
    BY <2>1, <2>2, <2>3, <2>4, Zenon
<1> HIDE DEF cs
<1>7. ~cs[1][2] /\ ~cs[2][2] /\ ~cs[3][2] /\ ~cs[4][2]
  BY <1>2, <1>3, <1>4, <1>5, <1>6, Zenon
<1>8. \A i \in 1..4 : i = 1 \/ i = 2 \/ i = 3 \/ i = 4
  OBVIOUS
<1>9. \A i \in 1..4 : ~cs[i][2]
  BY <1>7, <1>8, Zenon
<1>10. FirstError(cs) = "NO_ERR"
  BY <1>6, <1>9, AllPassed, Zenon
<1> QED
  BY <1>1, <1>10 DEF cs

\* A payload of the image is accepted.
LEMMA PayloadPasses ==
  ASSUME NEW im, NEW n \in DOMAIN im, WellFormed(im), MadeFor(im), Taken(im, n),
         im[n].type \in Payload
  PROVE  FirstError(PayloadChecks(im[n])) = "NO_ERR"
<1>1. PICK o : o = im[n]
  OBVIOUS
<1>2. (otp.force_sign => o.signed_obj) /\ (otp.force_encrypt => o.encrypted)
  BY <1>1, Zenon DEF MadeFor
<1>3. o.signed_obj => \E j \in 1..(n - 1) : IsEnd(im[j])
  BY <1>1, Zenon DEF WellFormed
<1>4. o.signed_obj => endCert # <<>>
  BY <1>3, Zenon DEF Taken, EndTaken
<1> DEFINE cs == PayloadChecks(o)
<1>5. /\ DOMAIN cs = 1..3
      /\ cs[1][2] = (otp.force_sign /\ endCert = <<>>)
      /\ cs[2][2] = (otp.force_sign /\ ~o.signed_obj)
      /\ cs[3][2] = (otp.force_encrypt /\ ~o.encrypted)
  BY DEF PayloadChecks
<1> HIDE DEF cs
<1>6. ~cs[1][2] /\ ~cs[2][2] /\ ~cs[3][2]
  BY <1>2, <1>4, <1>5, Zenon
<1>7. \A i \in 1..3 : i = 1 \/ i = 2 \/ i = 3
  OBVIOUS
<1>8. \A i \in 1..3 : ~cs[i][2]
  BY <1>6, <1>7, Zenon
<1>9. FirstError(cs) = "NO_ERR"
  BY <1>5, <1>8, AllPassed, Zenon
<1> QED
  BY <1>1, <1>9 DEF cs

\* Every object of the image is accepted, as far as its status goes.
LEMMA ObjectPasses ==
  ASSUME TableInv, NEW im, Len(im) \in Nat, DOMAIN im = 1..Len(im), NEW n \in DOMAIN im,
         WellFormed(im), MadeFor(im), Taken(im, n)
  PROVE  ObjectStatus(im[n], "none", "none") = "NO_ERR"
<1>1. PICK o : o = im[n]
  OBVIOUS
<1>2. FirstError(HeaderChecks(o, "none", "none")) = "NO_ERR"
  <2>1. DOMAIN HeaderChecks(o, "none", "none") = 1..5
    BY DEF HeaderChecks
  <2>2. /\ HeaderChecks(o, "none", "none")[1][2] = FALSE /\ HeaderChecks(o, "none", "none")[2][2] = FALSE
    BY Zenon DEF HeaderChecks
  <2>3. /\ ~HeaderChecks(o, "none", "none")[3][2] /\ ~HeaderChecks(o, "none", "none")[5][2]
        /\ ~HeaderChecks(o, "none", "none")[4][2]
    BY Zenon DEF HeaderChecks
  <2>4. \A i \in 1..5 : i = 1 \/ i = 2 \/ i = 3 \/ i = 4 \/ i = 5
    OBVIOUS
  <2>5. \A i \in 1..5 : ~HeaderChecks(o, "none", "none")[i][2]
    BY <2>2, <2>3, <2>4, Zenon
  <2> QED
    BY <2>1, <2>5, AllPassed, Zenon
<1>3. FirstError(TypeChecks(o, "none", "none")) = "NO_ERR"
  <2>1. CASE o.type = "root"
    <3>1. TypeChecks(o, "none", "none") = RootChecks(o, "none", "none")
      BY <2>1 DEF TypeChecks
    <3> QED
      BY <1>1, <2>1, <3>1, RootPasses, Zenon
  <2>2. CASE o.type = "non_root"
    <3>1. TypeChecks(o, "none", "none") = NonRootChecks(o, "none", "none")
      BY <2>2 DEF TypeChecks
    <3> QED
      BY <1>1, <2>2, <3>1, NonRootPasses, Zenon
  <2>3. CASE o.type = "key"
    <3>1. TypeChecks(o, "none", "none") = KeyChecks(o, "none", "none")
      BY <2>3 DEF TypeChecks
    <3> QED
      BY <1>1, <2>3, <3>1, KeyPasses, Zenon
  <2>4. CASE o.type \in Payload
    <3>1. TypeChecks(o, "none", "none") = PayloadChecks(o)
      BY <2>4 DEF TypeChecks, Payload
    <3> QED
      BY <1>1, <2>4, <3>1, PayloadPasses, Zenon
  <2>5. CASE o.type \notin {"root", "non_root", "key"} \cup Payload
    <3>1. TypeChecks(o, "none", "none") = <<>>
      BY <2>5 DEF TypeChecks
    <3>2. DOMAIN <<>> = 1..0 /\ \A i \in 1..0 : ~(<<>>[i][2])
      OBVIOUS
    <3> QED
      BY <3>1, <3>2, AllPassed
  <2> QED
    BY <2>1, <2>2, <2>3, <2>4, <2>5
<1> QED
  BY <1>1, <1>2, <1>3, Zenon DEF ObjectStatus

\* An action whose condition is met does its work.
LEMMA ActPasses ==
  ASSUME NEW o, NEW a, NEW s, s.status = "NO_ERR",
         a \in {"check", "verification"} => s.text = Signed(o),
         a = "verification" => endCert[1].id = o.sign_cert_id
  PROVE  Act(o, a, "none", s) = IF a = "decipher"
                                THEN [status |-> "NO_ERR", text |-> Deciphered(o, s.text)] ELSE s
<1>1. CASE a = "decipher"
  BY <1>1 DEF Act
<1>2. CASE a = "check"
  BY <1>2 DEF Act
<1>3. CASE a = "verification"
  <2>1. SignatureVerify(s.text = Signed(o) /\ endCert[1].id = o.sign_cert_id, "none")
    BY <1>3 DEF SignatureVerify
  <2> QED
    BY <1>3, <2>1 DEF Act
<1>4. CASE a \notin {"decipher", "check", "verification"}
  BY <1>4 DEF Act
<1> QED
  BY <1>1, <1>2, <1>3, <1>4

\* An undamaged payload whose key and certificate are in use is loaded.
LEMMA HandlePasses ==
  ASSUME NEW o, o.encrypted => key = o.key, o.signed_obj => endCert[1].id = o.sign_cert_id,
         o.sign_of_encrypted => o.signed_obj /\ o.encrypted
  PROVE  ImageHandle(o, "none", "none").status = "NO_ERR"
<1> DEFINE s0 == [status |-> "NO_ERR", text |-> IF o.encrypted THEN "cipher" ELSE "plain"]
           s1 == Act(o, Chain(o)[1], "none", s0)
           s2 == Act(o, Chain(o)[2], "none", s1)
           s3 == Act(o, Chain(o)[3], "none", s2)
<1>1. s3.status = "NO_ERR" => ImageHandle(o, "none", "none").status = "NO_ERR"
  <2>1. s0 = [status |-> IF "none" \in {"signature", "data"} THEN "EINTERNAL" ELSE "NO_ERR",
              text |-> IF "none" = "body" THEN "damaged"
                       ELSE IF o.encrypted THEN "cipher" ELSE "plain"]
    OBVIOUS
  <2> HIDE DEF s0
  <2> QED
    BY <2>1, Zenon DEF ImageHandle
<1>2. s0.status = "NO_ERR" /\ s0.text = IF o.encrypted THEN "cipher" ELSE "plain"
  OBVIOUS
<1> HIDE DEF s0
<1>3. CASE o.sign_of_encrypted
  <2>1. /\ Chain(o)[1] = "verification" /\ Chain(o)[2] \in {"check", "nope"}
        /\ Chain(o)[3] = "decipher"
    BY <1>3 DEF Chain
  <2>2. s0.text = Signed(o) /\ endCert[1].id = o.sign_cert_id
    BY <1>2, <1>3 DEF Signed
  <2>3. s1 = s0
    BY <1>2, <2>1, <2>2, ActPasses
  <2> HIDE DEF s1
  <2>4. s2 = s1
    BY <1>2, <2>1, <2>2, <2>3, ActPasses
  <2> HIDE DEF s2
  <2>5. s3 = [status |-> "NO_ERR", text |-> Deciphered(o, s2.text)]
    BY <1>2, <2>1, <2>3, <2>4, ActPasses
  <2> HIDE DEF s3
  <2> QED
    BY <1>1, <2>5
<1>4. CASE ~o.sign_of_encrypted
  <2>1. /\ Chain(o)[1] = IF o.encrypted THEN "decipher" ELSE "nope"
        /\ Chain(o)[2] \in {"check", "nope"}
        /\ Chain(o)[3] = IF o.signed_obj THEN "verification" ELSE "nope"
    BY <1>4 DEF Chain
  <2>2. s1.status = "NO_ERR" /\ s1.text = "plain"
    <3>1. CASE o.encrypted
      <4>1. s1 = [status |-> "NO_ERR", text |-> Deciphered(o, s0.text)]
        BY <1>2, <2>1, <3>1, ActPasses
      <4>2. Deciphered(o, s0.text) = "plain"
        BY <1>2, <3>1 DEF Deciphered
      <4> HIDE DEF s1
      <4> QED
        BY <4>1, <4>2
    <3>2. CASE ~o.encrypted
      <4>1. s1 = s0
        BY <1>2, <2>1, <3>2, ActPasses
      <4> HIDE DEF s1
      <4> QED
        BY <1>2, <3>2, <4>1
    <3> QED
      BY <3>1, <3>2
  <2> HIDE DEF s1
  <2>3. Signed(o) = "plain"
    BY <1>4 DEF Signed
  <2>4. s2 = s1
    BY <2>1, <2>2, <2>3, ActPasses
  <2> HIDE DEF s2
  <2>5. s3 = s2
    <3>1. CASE o.signed_obj
      BY <2>1, <2>2, <2>3, <2>4, <3>1, ActPasses
    <3>2. CASE ~o.signed_obj
      BY <2>1, <2>2, <2>4, <3>2, ActPasses
    <3> QED
      BY <3>1, <3>2
  <2> HIDE DEF s3
  <2> QED
    BY <1>1, <2>2, <2>4, <2>5
<1> QED
  BY <1>3, <1>4

\* Every payload of the image is loaded.
LEMMA PayloadHandled ==
  ASSUME NEW im, NEW n \in DOMAIN im, WellFormed(im), Taken(im, n), LastKey(im, n, key),
         im[n].type \in Payload
  PROVE  /\ im[n].fits /\ (im[n].type # "no_exec" => im[n].entry)
         /\ ImageHandle(im[n], "none", "none").status = "NO_ERR"
<1>1. PICK o : o = im[n]
  OBVIOUS
<1>2. /\ o.fits /\ (o.type # "no_exec" => o.entry)
      /\ (o.sign_of_encrypted => o.signed_obj /\ o.encrypted)
  BY <1>1, Zenon DEF WellFormed
<1>3. o.signed_obj => endCert[1].id = o.sign_cert_id
  <2>1. o.signed_obj => \E j \in 1..(n - 1) : IsEnd(im[j]) /\ im[j].id = o.sign_cert_id
    BY <1>1, Zenon DEF WellFormed
  <2> QED
    BY <2>1, Zenon DEF Taken, EndTaken
<1>4. o.encrypted => key = o.key
  <2>1. o.encrypted => \E j \in 1..(n - 1) :
          /\ im[j].type = "key" /\ im[j].key = o.key
          /\ \A k \in (j + 1)..(n - 1) : im[k].type # "key"
    BY <1>1, Zenon DEF WellFormed
  <2> QED
    BY <2>1, Zenon DEF LastKey
<1> QED
  BY <1>1, <1>2, <1>3, <1>4, HandlePasses, Zenon

\* The checks in front of the verification of a certificate are some of all.
LEMMA AcceptedIsParsed ==
  ASSUME NEW o, NEW d, NEW f, o.type \in {"root", "non_root"}, ObjectStatus(o, d, f) = "NO_ERR"
  PROVE  Parsed(o, d, f)
<1>1. FirstError(HeaderChecks(o, d, f)) = "NO_ERR" /\ FirstError(TypeChecks(o, d, f)) = "NO_ERR"
  BY Zenon DEF ObjectStatus
<1>2. ASSUME NEW T, NEW cs \in Seq(T), NEW m \in Nat, NEW k \in 0..m, Errors(cs, m),
             FirstError(cs) = "NO_ERR"
      PROVE  FirstError(SubSeq(cs, 1, k)) = "NO_ERR"
  <2>1. \A i \in 1..m : ~cs[i][2]
    BY <1>2, NoError, Zenon
  <2>2. Len(cs) = m
    BY <1>2 DEF Errors
  <2>3. DOMAIN SubSeq(cs, 1, k) = 1..k /\ \A i \in 1..k : SubSeq(cs, 1, k)[i] = cs[i]
    BY <2>2
  <2>4. \A i \in 1..k : i \in 1..m
    OBVIOUS
  <2>5. k \in Nat
    OBVIOUS
  <2> QED
    BY <2>1, <2>3, <2>4, <2>5, AllPassed, Zenon
<1>3. CASE o.type = "root"
  <2>1. TypeChecks(o, d, f) = RootChecks(o, d, f)
    BY <1>3 DEF TypeChecks
  <2>2. \E T : RootChecks(o, d, f) \in Seq(T)
    <3>1. PICK c1, c2, c3, c4 : RootChecks(o, d, f) = <<c1, c2, c3, c4>>
      BY Zenon DEF RootChecks
    <3>2. <<c1, c2, c3, c4>> \in Seq({c1, c2, c3, c4})
      OBVIOUS
    <3> QED
      BY <3>1, <3>2, Zenon
  <2>3. Errors(RootChecks(o, d, f), 4) /\ 2 \in 0..4
    BY ErrorsOnly
  <2>4. FirstError(SubSeq(RootChecks(o, d, f), 1, 2)) = "NO_ERR"
    BY <1>1, <1>2, <2>1, <2>2, <2>3
  <2> QED
    BY <1>1, <1>3, <2>1, <2>4 DEF Parsed
<1>4. CASE o.type = "non_root"
  <2>1. TypeChecks(o, d, f) = NonRootChecks(o, d, f)
    BY <1>4 DEF TypeChecks
  <2>2. \E T : NonRootChecks(o, d, f) \in Seq(T)
    <3>1. PICK c1, c2, c3, c4, c5, c6, c7 :
            NonRootChecks(o, d, f) = <<c1, c2, c3, c4, c5, c6, c7>>
      <4> DEFINE cs == NonRootChecks(o, d, f)
      <4>1. cs = <<cs[1], cs[2], cs[3], cs[4], cs[5], cs[6], cs[7]>>
        BY Zenon DEF NonRootChecks
      <4> HIDE DEF cs
      <4>2. \E c1, c2, c3, c4, c5, c6, c7 : cs = <<c1, c2, c3, c4, c5, c6, c7>>
        BY <4>1
      <4> QED
        BY <4>2 DEF cs
    <3>2. <<c1, c2, c3, c4, c5, c6, c7>> \in Seq({c1, c2, c3, c4, c5, c6, c7})
      OBVIOUS
    <3> QED
      BY <3>1, <3>2, Zenon
  <2>3. Errors(NonRootChecks(o, d, f), 7) /\ 5 \in 0..7
    BY ErrorsOnly
  <2>4. FirstError(SubSeq(NonRootChecks(o, d, f), 1, 5)) = "NO_ERR"
    BY <1>1, <1>2, <2>1, <2>2, <2>3
  <2> QED
    BY <1>1, <1>4, <2>1, <2>4 DEF Parsed
<1> QED
  BY <1>3, <1>4

\* What is left behind by object n, which was accepted.
LEMMA TakenStep ==
  ASSUME TableInv, NEW im, Len(im) \in Nat, DOMAIN im = 1..Len(im), NEW n \in DOMAIN im,
         n # Len(im), WellFormed(im), MadeFor(im), Taken(im, n), ObjectStatus(im[n], "none", "none") = "NO_ERR",
         \/ Take(im[n], "none", "none")
         \/ im[n].type \in Payload /\ UNCHANGED <<root, certs, endCert>>
  PROVE  Taken(im, n + 1)'
<1>1. PICK o : o = im[n]
  OBVIOUS
<1>2. PICK c : c = Cert(o)
  OBVIOUS
<1>3. n \in Nat \ {0} /\ \A j : j \in 1..((n + 1) - 1) <=> j \in 1..(n - 1) \/ j = n
  OBVIOUS
<1>4. /\ o.type = "root" => root' = o.subject
      /\ o.type # "root" => root' = root
      /\ IsCa(o) => certs' = Append(certs, c)
      /\ ~IsCa(o) => certs' = certs
      /\ IsEnd(o) => endCert' = <<c>>
      /\ ~IsEnd(o) => endCert' = endCert
  <2>1. CASE Take(im[n], "none", "none")
    <3>1. o.type \in {"root", "non_root"} => Parsed(o, "none", "none")
      <4> SUFFICES ASSUME o.type \in {"root", "non_root"} PROVE Parsed(o, "none", "none")
        BY Zenon
      <4>1. ObjectStatus(o, "none", "none") = "NO_ERR"
        BY <1>1, Zenon
      <4> QED
        BY <4>1, AcceptedIsParsed
    <3>2. /\ root' = IF o.type = "root" /\ Parsed(o, "none", "none") THEN o.subject ELSE root
          /\ certs' = IF o.type = "non_root" /\ o.ca THEN Append(certs, c) ELSE certs
          /\ endCert' = IF o.type = "non_root" /\ ~o.ca /\ Parsed(o, "none", "none")
                        THEN <<c>> ELSE endCert
      BY <1>1, <1>2, <2>1, Zenon DEF Take
    <3>3. /\ o.type = "root" => root' = o.subject
          /\ o.type # "root" => root' = root
      BY <3>1, <3>2, Zenon
    <3>4. (IsCa(o) => certs' = Append(certs, c)) /\ (~IsCa(o) => certs' = certs)
      BY <3>2, Zenon DEF IsCa
    <3>5. (IsEnd(o) => endCert' = <<c>>) /\ (~IsEnd(o) => endCert' = endCert)
      BY <3>1, <3>2, Zenon DEF IsEnd
    <3> QED
      BY <3>3, <3>4, <3>5, Zenon
  <2>2. CASE im[n].type \in Payload /\ UNCHANGED <<root, certs, endCert>>
    <3>1. o.type \notin {"root", "non_root"}
      BY <1>1, <2>2 DEF Payload
    <3> QED
      BY <2>2, <3>1, Zenon DEF IsCa, IsEnd
  <2> QED
    BY <2>1, <2>2
<1>5. RootTaken(im, n + 1)'
  <2> SUFFICES ASSUME NEW j \in 1..((n + 1) - 1), im[j].type = "root" PROVE root' = im[j].subject
    BY Zenon DEF RootTaken
  <2>1. j \in DOMAIN im
    OBVIOUS
  <2>2. CASE o.type = "root"
    <3>1. otp.rotpk = im[j].subject /\ otp.rotpk = o.subject
      BY <1>1, <2>1, <2>2, Zenon DEF MadeFor
    <3> QED
      BY <1>4, <2>2, <3>1, Zenon
  <2>3. CASE o.type # "root"
    <3>1. j \in 1..(n - 1)
      BY <1>1, <1>3, <2>3, Zenon
    <3> QED
      BY <1>4, <2>3, <3>1, Zenon DEF Taken, RootTaken
  <2> QED
    BY <2>2, <2>3
<1>6. CasTaken(im, n + 1)'
  <2>0. ASSUME NEW k, CountsCas(im, k) PROVE k[n + 1] = k[n] + IF IsCa(o) THEN 1 ELSE 0
    <3>1. n + 1 \in 2..Len(im) /\ (n + 1) - 1 = n
      BY <1>3
    <3> QED
      BY <1>1, <2>0, <3>1, Zenon DEF CountsCas
  <2>1. CASE ~IsCa(o)
    <3>1. CasOf(im, n + 1) = CasOf(im, n)
      BY <1>1, <1>3, <2>1, Zenon DEF CasOf
    <3>2. certs' = certs
      BY <1>4, <2>1, Zenon
    <3>3. ASSUME NEW k, CountsCas(im, k) PROVE Len(certs) = k[n + 1]
      <4>1. Len(certs) = k[n]
        BY <3>3, Zenon DEF Taken, CasTaken
      <4>2. Len(certs) \in Nat
        <5>1. PICK T : certs \in Seq(T)
          BY Zenon DEF TableInv
        <5> QED
          BY <5>1
      <4> QED
        BY <2>0, <2>1, <3>3, <4>1, <4>2
    <3> QED
      <4>0. /\ \A i \in DOMAIN certs : \E j \in CasOf(im, n) : certs[i].id = im[j].id
            /\ \A j \in CasOf(im, n) : \E i \in DOMAIN certs :
                 certs[i].id = im[j].id /\ certs[i].subject = im[j].subject
        BY Zenon DEF Taken, CasTaken
      <4>1. \A i \in DOMAIN certs : \E j \in CasOf(im, n + 1) : certs[i].id = im[j].id
        BY <3>1, <4>0, ZenonT(30)
      <4>2. \A j \in CasOf(im, n + 1) : \E i \in DOMAIN certs :
              certs[i].id = im[j].id /\ certs[i].subject = im[j].subject
        BY <3>1, <4>0, Zenon
      <4> QED
        BY <3>2, <3>3, <4>1, <4>2, Zenon DEF CasTaken, CasOf
  <2>2. CASE IsCa(o)
    <3>1. PICK T : certs \in Seq(T)
      BY Zenon DEF TableInv
    <3>2. /\ Len(certs') = Len(certs) + 1 /\ DOMAIN certs = 1..Len(certs)
          /\ DOMAIN certs' = 1..Len(certs') /\ Len(certs) \in Nat
          /\ certs'[Len(certs) + 1] = c /\ \A i \in 1..Len(certs) : certs'[i] = certs[i]
      <4>1. certs' = Append(certs, c)
        BY <1>4, <2>2, Zenon
      <4> QED
        BY <3>1, <4>1
    <3>3. c.id = o.id /\ c.subject = o.subject
      BY <1>2 DEF Cert
    <3>4. \A j : j \in CasOf(im, n + 1) <=> j \in CasOf(im, n) \/ j = n
      BY <1>1, <1>3, <2>2, Zenon DEF CasOf
    <3>5. ASSUME NEW k, CountsCas(im, k) PROVE Len(certs') = k[n + 1]
      <4>1. k[n + 1] = k[n] + 1
        BY <2>0, <2>2, <3>5, Zenon
      <4>2. Len(certs) = k[n]
        BY <3>5, Zenon DEF Taken, CasTaken
      <4> QED
        BY <3>2, <4>1, <4>2, Zenon
    <3>6. \A i \in DOMAIN certs' : i \in DOMAIN certs \/ i = Len(certs) + 1
      BY <3>2
    <3>7. Len(certs) + 1 \in DOMAIN certs' /\ \A i \in DOMAIN certs : i \in DOMAIN certs'
      BY <3>2
    <3>8. ASSUME NEW i \in DOMAIN certs' PROVE \E j \in CasOf(im, n + 1) : certs'[i].id = im[j].id
      <4>1. CASE i \in DOMAIN certs
        <5>1. PICK j \in CasOf(im, n) : certs[i].id = im[j].id
          BY <4>1, Zenon DEF Taken, CasTaken
        <5> QED
          BY <3>2, <3>4, <4>1, <5>1, Zenon
      <4>2. CASE i = Len(certs) + 1
        BY <1>1, <3>2, <3>3, <3>4, <4>2, Zenon
      <4> QED
        BY <3>6, <4>1, <4>2, Zenon
    <3>9. ASSUME NEW j \in CasOf(im, n + 1)
          PROVE  \E i \in DOMAIN certs' : certs'[i].id = im[j].id /\ certs'[i].subject = im[j].subject
      <4>1. CASE j \in CasOf(im, n)
        <5>1. PICK i \in DOMAIN certs : certs[i].id = im[j].id /\ certs[i].subject = im[j].subject
          BY <4>1, Zenon DEF Taken, CasTaken
        <5> QED
          BY <3>2, <3>7, <5>1, Zenon
      <4>2. CASE j = n
        BY <1>1, <3>2, <3>3, <3>7, <4>2, Zenon
      <4> QED
        BY <3>4, <4>1, <4>2, Zenon
    <3> QED
      BY <3>5, <3>8, <3>9, Zenon DEF CasTaken, CasOf
  <2> QED
    BY <2>1, <2>2
<1>7. EndTaken(im, n + 1)'
  <2>1. CASE ~IsEnd(o)
    <3>1. \A j \in 1..((n + 1) - 1) : IsEnd(im[j]) => j \in 1..(n - 1)
      BY <1>1, <1>3, <2>1, Zenon
    <3>2. endCert' = endCert
      BY <1>4, <2>1, Zenon
    <3> QED
      BY <1>3, <3>1, <3>2, Zenon DEF Taken, EndTaken, IsEnd
  <2>2. CASE IsEnd(o)
    <3>1. endCert' # <<>> /\ 1 \in DOMAIN endCert' /\ endCert'[1] = c
      <4>1. endCert' = <<c>>
        BY <1>4, <2>2, Zenon
      <4> QED
        BY <4>1
    <3>2. c.id = o.id
      BY <1>2 DEF Cert
    <3>3. \A j \in 1..(n - 1) : ~IsEnd(im[j])
      <4>1. o.type = "non_root"
        BY <2>2, Zenon DEF IsEnd
      <4> QED
        BY <1>1, <4>1, Zenon DEF WellFormed
    <3>4. \A j \in 1..((n + 1) - 1) : IsEnd(im[j]) => j = n
      BY <1>3, <3>3, Zenon
    <3> QED
      BY <1>1, <1>3, <2>2, <3>1, <3>2, <3>4, Zenon DEF EndTaken, IsEnd
  <2> QED
    BY <2>1, <2>2
<1> QED
  BY <1>5, <1>6, <1>7, Zenon DEF Taken

\* As long as nothing failed, loading a sound image goes on or has come to its end.
SoundInv ==
  /\ faults \in Nat
  /\ pass \in Loading /\ faults = 0 /\ Suitable(Selected) =>
       /\ pass # "panic"
       /\ pass = "load" =>
            /\ ret \in {"NO_ERR", "LOAD_FINISH"} /\ offset \in 1..Len(Image)
            /\ ret = "NO_ERR" => Taken(Image, offset)
            /\ ret = "LOAD_FINISH" => Image[offset].entry

\* An image is a sequence of at most MaxLen objects.
LEMMA ImageLength ==
  TypeInv => Len(Image) \in 1..MaxLen /\ MaxLen \in Nat /\ DOMAIN Image = 1..Len(Image)
<1> SUFFICES ASSUME flash \in [Slot -> Names]
             PROVE  Len(Image) \in 1..MaxLen /\ MaxLen \in Nat /\ DOMAIN Image = 1..Len(Image)
  BY Zenon DEF TypeInv
<1>1. Selected \in Slot
  BY DEF Selected, Slot
<1> QED
  BY <1>1, ExecutorAssumption, Zenon DEF Image

\* What is said of a volume with a suitable image.
LEMMA SuitableImage ==
  ASSUME Suitable(Selected)
  PROVE  WellFormed(Image) /\ MadeFor(Image) /\ \A i \in 1..MaxLen : bad[Selected][i] = "none"
BY Zenon DEF Suitable, MadeFor, Image

\* The same of the image and the offset the call leaves.
LEMMA TakenAt ==
  ASSUME NEW im, NEW n, Image' = im, offset' = n, Taken(im, n)'
  PROVE  Taken(Image, offset)'
<1>1. RootTaken(Image, offset)'
  BY Zenon DEF Taken, RootTaken
<1>2. CasTaken(Image, offset)'
  BY ZenonT(30) DEF Taken, CasTaken, CasOf
<1>3. EndTaken(Image, offset)'
  BY Zenon DEF Taken, EndTaken, IsEnd
<1> QED
  BY <1>1, <1>2, <1>3, Zenon DEF Taken

\* The loading pass starts with the first object and no certificates.
LEMMA StartSound ==
  ASSUME ExecutorInv, SoundInv, NEW f \in Failure, StartLoad(f)
  PROVE  SoundInv'
<1>1. /\ pass = "checked" /\ pass' = "load" /\ offset' = 1
      /\ UNCHANGED <<flash, root, certs, endCert>>
      /\ ret' = IF f = "data" THEN "ENULL" ELSE "NO_ERR"
      /\ faults' = IF f = "none" THEN faults ELSE faults + 1
  BY Zenon DEF StartLoad, SblimgInit, Faulty, cryptoVars
<1>2. faults \in Nat
  BY DEF SoundInv
<1>3. faults' \in Nat /\ (faults' = 0 => f = "none")
  BY <1>1, <1>2
<1>4. faults' = 0 => ret' = "NO_ERR"
  BY <1>1, <1>3
<1>5. certs' = <<>> /\ endCert' = <<>>
  BY <1>1, Zenon DEF ExecutorInv, BeforeInv
<1>6. PICK im : im = Image'
  OBVIOUS
<1>7. offset' \in 1..Len(im)
  <2>1. TypeInv'
    BY StartInv, Zenon DEF ExecutorInv
  <2>2. (Len(Image) \in 1..MaxLen /\ MaxLen \in Nat)'
    BY <2>1, ImageLength, PTL
  <2>3. Len(im) \in 1..MaxLen /\ MaxLen \in Nat
    BY <1>6, <2>2, Zenon
  <2> QED
    BY <1>1, <2>3
<1>8. Taken(im, 1)'
  <2>1. 1..(1 - 1) = {} /\ CasOf(im, 1) = {} /\ Len(<<>>) = 0 /\ DOMAIN <<>> = {}
    BY DEF CasOf
  <2>2. \A c : CountsCas(im, c) => c[1] = 0
    BY Zenon DEF CountsCas
  <2>3. RootTaken(im, 1)'
    BY <2>1, Zenon DEF RootTaken
  <2>4. CasTaken(im, 1)'
    BY <1>5, <2>1, <2>2, Zenon DEF CasTaken, CasOf, IsCa
  <2>5. EndTaken(im, 1)'
    BY <1>5, <2>1, Zenon DEF EndTaken
  <2> QED
    BY <2>3, <2>4, <2>5, Zenon DEF Taken
<1>9. Taken(Image, offset)'
  BY <1>1, <1>6, <1>8, TakenAt, Zenon
<1> QED
  <2>1. pass' # "panic" /\ pass' = "load"
    BY <1>1
  <2>2. ret' = "NO_ERR" => ret' # "LOAD_FINISH"
    OBVIOUS
  <2> QED
    BY <1>3, <1>4, <1>6, <1>7, <1>9, <2>1, <2>2, Zenon DEF SoundInv

\* Nothing that a sound image is judged by changes.
LEMMA SuitableBefore ==
  ASSUME pass \in Loading, pass' \in Loading, UNCHANGED <<flash, bad, otp, recovery>>,
         Suitable(Selected)'
  PROVE  Suitable(Selected)
<1>1. Selected' = Selected
  BY DEF Selected, Loading
<1> QED
  BY <1>1, Zenon DEF Suitable

\* Without a failure sblimg_update accepts the next object of a sound image.
LEMMA UpdateSound ==
  ASSUME ExecutorInv, ChainInv, SoundInv, NEW f \in Failure, SblimgUpdate(f)
  PROVE  SoundInv'
<1>1. /\ pass = "load" /\ pass' = "load" /\ ret = "NO_ERR" /\ UNCHANGED <<flash, bad, otp, recovery>>
      /\ offset' = IF ret' = "NO_ERR" THEN offset + 1 ELSE offset
      /\ faults' = IF f = "none" THEN faults ELSE faults + 1
  BY Zenon DEF SblimgUpdate, Advance, Faulty
<1>2. Image' = Image
  BY <1>1, SameImage DEF Loading
<1>3. faults \in Nat
  BY DEF SoundInv
<1>4. faults' \in Nat /\ (faults' = 0 => faults = 0 /\ f = "none")
  BY <1>1, <1>3
<1> SUFFICES ASSUME faults' = 0, Suitable(Selected)'
             PROVE  /\ ret' \in {"NO_ERR", "LOAD_FINISH"} /\ offset' \in 1..Len(Image)
                    /\ ret' = "NO_ERR" => Taken(Image, offset)'
                    /\ ret' = "LOAD_FINISH" => Image[offset'].entry
  <2>1. pass' # "panic"
    BY <1>1
  <2> QED
    BY <1>2, <1>4, <2>1, Zenon DEF SoundInv
<1>5. faults = 0 /\ f = "none" /\ Suitable(Selected) /\ pass \in Loading
  BY <1>1, <1>4, SuitableBefore DEF Loading
<1>6. offset \in 1..Len(Image) /\ Taken(Image, offset)
  BY <1>1, <1>5, Zenon DEF SoundInv
<1>7. PICK im : im = Image
  OBVIOUS
<1>8. PICK n : n = offset
  OBVIOUS
<1>9. Len(im) \in 1..MaxLen /\ MaxLen \in Nat /\ DOMAIN im = 1..Len(im)
  BY <1>7, ImageLength, Zenon DEF ExecutorInv
<1>10. n \in 1..Len(im) /\ n \in DOMAIN im /\ n \in 1..MaxLen /\ Len(im) \in Nat
  BY <1>6, <1>7, <1>8, <1>9
<1>11. /\ WellFormed(im) /\ MadeFor(im) /\ Taken(im, n) /\ LastKey(im, n, key) /\ TableInv
       /\ bad[Selected][offset] = "none"
  <2>1. WellFormed(im) /\ MadeFor(im) /\ bad[Selected][offset] = "none"
    BY <1>5, <1>7, <1>8, <1>10, SuitableImage, Zenon
  <2>2. Taken(im, n)
    BY <1>6, <1>7, <1>8, Zenon
  <2>3. LastKey(im, n, key)
    BY <1>1, <1>7, <1>8, Zenon DEF ExecutorInv, LoadInv
  <2> QED
    BY <2>1, <2>2, <2>3, Zenon DEF ChainInv
<1>12. AtOffset = im[n] /\ BadAtOffset = "none"
  <2>1. offset <= Len(Image) /\ ~(offset > Len(Image))
    BY <1>7, <1>8, <1>10
  <2> QED
    BY <1>7, <1>8, <1>11, <2>1, Zenon DEF AtOffset, BadAtOffset
<1>13. ObjectStatus(im[n], "none", "none") = "NO_ERR"
  BY <1>9, <1>10, <1>11, ObjectPasses, Zenon
<1>14. \/ /\ im[n].type \in Payload /\ UNCHANGED <<root, certs, endCert>>
          /\ (im[n].type # "no_exec" => im[n].entry)
          /\ ret' = IF im[n].type = "no_return" THEN "LOAD_FINISH" ELSE "NO_ERR"
       \/ im[n].type \notin Payload /\ ret' = "NO_ERR" /\ Take(im[n], "none", "none")
  <2>1. PICK o : o = im[n]
    OBVIOUS
  <2>2. CASE o.type \in Payload
    <3>1. /\ o.fits /\ (o.type # "no_exec" => o.entry)
          /\ ImageHandle(o, "none", "none").status = "NO_ERR"
      BY <1>10, <1>11, <2>1, <2>2, PayloadHandled, Zenon
    <3>2. /\ UNCHANGED <<root, certs, endCert>>
          /\ ret' \in Returned(IF ImageHandle(o, "none", "none").status # "NO_ERR"
                               THEN ImageHandle(o, "none", "none").status
                               ELSE IF o.type = "no_return" THEN "LOAD_FINISH"
                               ELSE IF o.type = "with_return" /\ ~o.entry
                               THEN "EINVALIDDATA" ELSE "NO_ERR", f = "signature")
      BY <1>5, <1>12, <1>13, <2>1, <2>2, <3>1, Zenon DEF SblimgUpdate, cryptoVars
    <3>3. /\ f # "signature" /\ (o.type = "with_return" => o.entry)
      BY <1>5, <3>1
    <3>4. ret' = IF o.type = "no_return" THEN "LOAD_FINISH" ELSE "NO_ERR"
      BY <3>1, <3>2, <3>3, Zenon DEF Returned
    <3> QED
      BY <2>1, <2>2, <3>1, <3>2, <3>4, Zenon
  <2>3. CASE o.type \notin Payload
    <3>1. ret' = ObjectStatus(o, "none", "none") /\ Take(o, "none", "none")
      BY <1>5, <1>12, <2>1, <2>3, Zenon DEF SblimgUpdate
    <3> QED
      BY <1>13, <2>1, <2>3, <3>1, Zenon
  <2> QED
    BY <2>2, <2>3
<1>15. ret' \in {"NO_ERR", "LOAD_FINISH"} /\ (ret' = "LOAD_FINISH" => im[n].entry)
  BY <1>14
<1>16. ret' = "NO_ERR" => n # Len(im)
  <2>1. ret' = "NO_ERR" => im[n].type # "no_return"
    BY <1>14 DEF Payload
  <2> QED
    BY <1>11, <2>1, Zenon DEF WellFormed
<1>17. offset' \in 1..Len(im)
  BY <1>1, <1>8, <1>10, <1>16
<1>18. ret' = "NO_ERR" => Taken(im, n + 1)'
  BY <1>9, <1>10, <1>11, <1>13, <1>14, <1>16, TakenStep, Zenon
<1>19. ret' = "NO_ERR" => Taken(Image, offset)'
  <2>1. ret' = "NO_ERR" => offset' = n + 1 /\ Image' = im
    BY <1>1, <1>2, <1>7, <1>8
  <2> QED
    BY <1>18, <2>1, TakenAt, Zenon
<1>20. ret' = "LOAD_FINISH" => Image[offset'].entry
  <2>1. ret' = "LOAD_FINISH" => offset' = n
    BY <1>1, <1>8
  <2> QED
    BY <1>7, <1>15, <2>1, Zenon
<1> QED
  BY <1>7, <1>15, <1>17, <1>19, <1>20, Zenon

\* Without a failure sblimg_finish starts the last payload of a sound image.
LEMMA FinishSound ==
  ASSUME ExecutorInv, SoundInv, NEW f \in Failure, SblimgFinish(f)
  PROVE  SoundInv'
<1>1. /\ pass = "load" /\ pass' \in {"running", "panic"} /\ ret # "NO_ERR"
      /\ UNCHANGED <<flash, bad, otp, recovery>>
      /\ ret = "LOAD_FINISH" /\ f = "none" /\ AtOffset.entry => pass' = "running"
      /\ faults' = IF f = "none" THEN faults ELSE faults + 1
  BY Zenon DEF SblimgFinish, Faulty
<1>2. faults \in Nat
  BY DEF SoundInv
<1>3. faults' \in Nat /\ (faults' = 0 => faults = 0 /\ f = "none")
  BY <1>1, <1>2
<1>4. ASSUME faults' = 0, Suitable(Selected)' PROVE pass' = "running"
  <2>1. faults = 0 /\ f = "none" /\ Suitable(Selected) /\ pass \in Loading
    BY <1>1, <1>3, <1>4, SuitableBefore DEF Loading
  <2>2. ret = "LOAD_FINISH" /\ offset \in 1..Len(Image) /\ Image[offset].entry
    BY <1>1, <2>1, Zenon DEF SoundInv
  <2>3. offset <= Len(Image)
    BY <2>2, ImageLength DEF ExecutorInv
  <2>4. AtOffset.entry
    BY <2>2, <2>3, Zenon DEF AtOffset
  <2> QED
    BY <1>1, <2>1, <2>2, <2>4, Zenon
<1>5. pass' # "load" /\ (pass' = "running" => pass' # "panic")
  BY <1>1
<1> QED
  BY <1>3, <1>4, <1>5, Zenon DEF SoundInv

\* Every call keeps the loading of a sound image on its way.
LEMMA SoundStep ==
  ASSUME ExecutorInv, ChainInv, SoundInv, [Next]_vars
  PROVE  SoundInv'
<1>1. ASSUME NEW f \in Failure, StartCheck(f) \/ \E held \in BOOLEAN : SblimgCheck(f, held)
      PROVE  SoundInv'
  <2>1. pass' = "check" /\ faults' = IF f = "none" THEN faults ELSE faults + 1
    BY <1>1, Zenon DEF StartCheck, SblimgInit, SblimgCheck, Faulty
  <2>2. faults' \in Nat
    BY <2>1 DEF SoundInv
  <2> QED
    BY <2>1, <2>2 DEF SoundInv, Loading
<1>2. CASE SblimgAbort \/ SkipCheck
  <2>1. pass' = "checked" /\ faults' = faults
    BY <1>2, Zenon DEF SblimgAbort, SkipCheck
  <2> QED
    BY <2>1 DEF SoundInv, Loading
<1>3. CASE UNCHANGED vars
  <2>1. UNCHANGED <<flash, bad, otp, recovery, pass, ret, offset, faults>>
    BY <1>3, Zenon DEF vars
  <2>2. UNCHANGED <<root, certs, endCert>>
    BY <1>3, Zenon DEF vars, cryptoVars
  <2>3. Image' = Image /\ Selected' = Selected
    BY <2>1, Zenon DEF Image, Selected
  <2>4. Suitable(Selected)' <=> Suitable(Selected)
    BY <2>1, <2>3, Zenon DEF Suitable
  <2>5. Taken(Image, offset) => Taken(Image, offset)'
    <3> SUFFICES ASSUME Taken(Image, offset) PROVE Taken(Image, offset)'
      OBVIOUS
    <3>1. PICK im : im = Image
      OBVIOUS
    <3>2. PICK n : n = offset
      OBVIOUS
    <3>3. Taken(im, n)
      BY <3>1, <3>2, Zenon
    <3>4. RootTaken(im, n)'
      BY <2>2, <3>3, Zenon DEF Taken, RootTaken
    <3>5. CasTaken(im, n)'
      BY <2>2, <3>3, Zenon DEF Taken, CasTaken, CasOf
    <3>6. EndTaken(im, n)'
      BY <2>2, <3>3, Zenon DEF Taken, EndTaken
    <3>7. Taken(im, n)'
      BY <3>4, <3>5, <3>6, Zenon DEF Taken
    <3> QED
      BY <2>1, <2>3, <3>1, <3>2, <3>7, TakenAt, Zenon
  <2> QED
    BY <2>1, <2>3, <2>4, <2>5, Zenon DEF SoundInv
<1>4. ASSUME NEW f \in Failure, Call(f) PROVE SoundInv'
  BY <1>1, <1>4, StartSound, UpdateSound, FinishSound, Zenon DEF Call
<1> QED
  BY <1>2, <1>3, <1>4, Zenon DEF Next

\* Loading a sound image fails only if a read or an allocation fails, for every
\* image that is well formed and made for the board and whatever the recovery
\* image and the check of it were (sblimg_update, sblimg_finish).
THEOREM SoundImageStartsInvariant == Spec => []SoundImageStarts
<1>1. Init => ChainInv /\ SoundInv
  <2> SUFFICES ASSUME Init PROVE ChainInv /\ SoundInv
    OBVIOUS
  <2>1. NoCerts
    BY Zenon DEF Init, NoCerts
  <2>2. pass = "boot" /\ faults = 0
    BY Zenon DEF Init
  <2>3. SoundInv
    BY <2>2 DEF SoundInv, Loading
  <2> QED
    BY <2>1, <2>3, EmptyChain, Zenon
<1>2. SoundInv => SoundImageStarts
  <2> SUFFICES ASSUME SoundInv, pass = "panic", Suitable(Selected) PROVE faults > 0
    BY Zenon DEF SoundImageStarts
  <2>1. faults \in Nat /\ pass \in Loading
    BY DEF SoundInv, Loading
  <2>2. faults # 0
    BY <2>1, Zenon DEF SoundInv
  <2> QED
    BY <2>1, <2>2
<1> QED
  BY <1>1, <1>2, ChainStep, SoundStep, ExecutorInvariant, PTL DEF Spec
-----------------------------------------------------------------------------
(***************************************************************************)
(* The certificates and the key in use are those of the image at hand.     *)
(***************************************************************************)

\* TableIsOfThisImage, object by object, for the objects in front of object n of
\* image im; their root certificates are the one the OTP names.
RootOwn(im, n) ==
  /\ root # "" => \E j \in 1..(n - 1) : im[j].type = "root"
  /\ \A j \in 1..(n - 1) : im[j].type = "root" => root = im[j].subject /\ root = otp.rotpk

CasOwn(im, n) ==
  /\ \A i \in DOMAIN certs : \E j \in CasOf(im, n) : Name(certs[i]) = Name(im[j])
  /\ \A j \in CasOf(im, n) : \E i \in DOMAIN certs : Name(certs[i]) = Name(im[j])

\* The end certificates in front of object n of image im.
EndsOf(im, n) == {j \in 1..(n - 1) : IsEnd(im[j])}

EndOwn(im, n) ==
  /\ \A i \in DOMAIN endCert : \E j \in EndsOf(im, n) : Name(endCert[i]) = Name(im[j])
  /\ \A j \in EndsOf(im, n) : \E i \in DOMAIN endCert : Name(endCert[i]) = Name(im[j])

Own(im, n) == RootOwn(im, n) /\ CasOwn(im, n) /\ EndOwn(im, n) /\ LastKey(im, n, key)

OwnInv == pass \in {"check", "load"} /\ ret \in {"NO_ERR", "LOAD_FINISH"} => Own(Image, offset)

\* An end certificate is the last one.
LEMMA NoEndBefore ==
  ASSUME NEW o, NEW d, NEW f, o.type = "non_root", ObjectStatus(o, d, f) = "NO_ERR"
  PROVE  endCert = <<>>
<1>1. FirstError(TypeChecks(o, d, f)) = "NO_ERR"
  BY Zenon DEF ObjectStatus
<1>2. TypeChecks(o, d, f) = NonRootChecks(o, d, f)
  BY DEF TypeChecks
<1>3. \A i \in 1..7 : ~NonRootChecks(o, d, f)[i][2]
  BY <1>1, <1>2, ErrorsOnly, NoError
<1>4. ~NonRootChecks(o, d, f)[1][2]
  BY <1>3
<1>5. NonRootChecks(o, d, f)[1][2] = (endCert # <<>>)
  BY DEF NonRootChecks
<1> QED
  BY <1>4, <1>5, Zenon

\* What an accepted object leaves behind.
LEMMA AcceptedLeaves ==
  ASSUME NEW o, NEW d, NEW f, ObjectStatus(o, d, f) = "NO_ERR",
         \/ Take(o, d, f)
         \/ o.type \in Payload /\ UNCHANGED <<root, certs, endCert, key>>
  PROVE  /\ o.type = "root" => root' = o.subject
         /\ o.type # "root" => root' = root
         /\ IsCa(o) => certs' = Append(certs, Cert(o))
         /\ ~IsCa(o) => certs' = certs
         /\ IsEnd(o) => endCert' = <<Cert(o)>>
         /\ ~IsEnd(o) => endCert' = endCert
         /\ o.type = "key" => key' = o.key
         /\ o.type # "key" => key' = key
<1>1. CASE Take(o, d, f)
  <2>1. o.type \in {"root", "non_root"} => Parsed(o, d, f)
    BY AcceptedIsParsed
  <2>2. /\ root' = IF o.type = "root" /\ Parsed(o, d, f) THEN o.subject ELSE root
        /\ certs' = IF o.type = "non_root" /\ o.ca THEN Append(certs, Cert(o)) ELSE certs
        /\ endCert' = IF o.type = "non_root" /\ ~o.ca /\ Parsed(o, d, f)
                      THEN <<Cert(o)>> ELSE endCert
        /\ key' = IF o.type = "key" THEN o.key ELSE key
    BY <1>1, Zenon DEF Take
  <2>3. /\ o.type = "root" => root' = o.subject
        /\ o.type # "root" => root' = root
    BY <2>1, <2>2, Zenon
  <2>4. (IsCa(o) => certs' = Append(certs, Cert(o))) /\ (~IsCa(o) => certs' = certs)
    BY <2>2, Zenon DEF IsCa
  <2>5. (IsEnd(o) => endCert' = <<Cert(o)>>) /\ (~IsEnd(o) => endCert' = endCert)
    BY <2>1, <2>2, Zenon DEF IsEnd
  <2>6. (o.type = "key" => key' = o.key) /\ (o.type # "key" => key' = key)
    BY <2>2, Zenon
  <2> QED
    BY <2>3, <2>4, <2>5, <2>6, Zenon
<1>2. CASE o.type \in Payload /\ UNCHANGED <<root, certs, endCert, key>>
  <2>1. o.type \notin {"root", "non_root", "key"}
    BY <1>2 DEF Payload
  <2> QED
    BY <1>2, <2>1, Zenon DEF IsCa, IsEnd
<1> QED
  BY <1>1, <1>2

\* An accepted object of the image joins the ones in front of it.
LEMMA OwnStep ==
  ASSUME TableInv, NEW im, NEW n \in Nat \ {0}, Own(im, n), NEW o, o = im[n], NEW d, NEW f,
         ObjectStatus(o, d, f) = "NO_ERR", UNCHANGED otp,
         \/ Take(o, d, f)
         \/ o.type \in Payload /\ UNCHANGED <<root, certs, endCert, key>>
  PROVE  Own(im, n + 1)'
<1>1. PICK c : c = Cert(o)
  OBVIOUS
<1>2. Name(c) = Name(o)
  BY <1>1 DEF Name, Cert
<1>3. /\ o.type = "root" => root' = o.subject
      /\ o.type # "root" => root' = root
      /\ IsCa(o) => certs' = Append(certs, c)
      /\ ~IsCa(o) => certs' = certs
      /\ IsEnd(o) => endCert' = <<c>>
      /\ ~IsEnd(o) => endCert' = endCert
      /\ o.type = "key" => key' = o.key
      /\ o.type # "key" => key' = key
  BY <1>1, AcceptedLeaves, Zenon
<1>4. \A j : j \in 1..((n + 1) - 1) <=> j \in 1..(n - 1) \/ j = n
  OBVIOUS
<1>5. RootOwn(im, n + 1)'
  <2>1. RootOwn(im, n)
    BY Zenon DEF Own
  <2>2. CASE o.type = "root"
    <3>1. o.subject = otp.rotpk
      BY <2>2, Accepts, Zenon
    <3>2. ASSUME NEW j \in 1..((n + 1) - 1), im[j].type = "root"
          PROVE  root' = im[j].subject /\ root' = otp'.rotpk
      <4>1. CASE j \in 1..(n - 1)
        <5>1. im[j].subject = otp.rotpk
          BY <2>1, <3>2, <4>1, Zenon DEF RootOwn
        <5> QED
          BY <1>3, <2>2, <3>1, <5>1, Zenon
      <4>2. CASE j = n
        BY <1>3, <2>2, <3>1, <4>2, Zenon
      <4> QED
        BY <1>4, <4>1, <4>2, Zenon
    <3>3. n \in 1..((n + 1) - 1)
      BY <1>4
    <3> QED
      BY <2>2, <3>2, <3>3, Zenon DEF RootOwn
  <2>3. CASE o.type # "root"
    <3>1. root' = root
      BY <1>3, <2>3, Zenon
    <3>2. root # "" => \E j \in 1..((n + 1) - 1) : im[j].type = "root"
      BY <1>4, <2>1, Zenon DEF RootOwn
    <3>3. \A j \in 1..((n + 1) - 1) : im[j].type = "root" => j \in 1..(n - 1)
      BY <1>4, <2>3, Zenon
    <3> QED
      BY <2>1, <3>1, <3>2, <3>3, Zenon DEF RootOwn
  <2> QED
    BY <2>2, <2>3
<1>6. CasOwn(im, n + 1)'
  <2>1. CasOwn(im, n)
    BY Zenon DEF Own
  <2>2. CASE ~IsCa(o)
    <3>1. CasOf(im, n + 1) = CasOf(im, n)
      BY <1>4, <2>2, Zenon DEF CasOf
    <3>2. certs' = certs
      BY <1>3, <2>2, Zenon
    <3>3. CasOwn(im, n + 1)
      BY <2>1, <3>1, Zenon DEF CasOwn
    <3> QED
      BY <3>2, <3>3, Zenon DEF CasOwn, CasOf
  <2>3. CASE IsCa(o)
    <3>1. PICK T : certs \in Seq(T)
      BY Zenon DEF TableInv
    <3>2. /\ Len(certs) + 1 \in DOMAIN certs' /\ \A i \in DOMAIN certs : i \in DOMAIN certs'
          /\ \A i \in DOMAIN certs' : i \in DOMAIN certs \/ i = Len(certs) + 1
          /\ certs'[Len(certs) + 1] = c /\ \A i \in DOMAIN certs : certs'[i] = certs[i]
      <4>1. certs' = Append(certs, c)
        BY <1>3, <2>3, Zenon
      <4>2. DOMAIN certs = 1..Len(certs) /\ Len(certs) \in Nat
        BY <3>1
      <4>3. DOMAIN certs' = 1..(Len(certs) + 1) /\ certs'[Len(certs) + 1] = c
        BY <3>1, <4>1
      <4>4. \A i \in 1..Len(certs) : certs'[i] = certs[i]
        BY <3>1, <4>1
      <4> QED
        BY <4>2, <4>3, <4>4
    <3>3. \A j : j \in CasOf(im, n + 1) <=> j \in CasOf(im, n) \/ j = n
      BY <1>4, <2>3, Zenon DEF CasOf
    <3>4. ASSUME NEW i \in DOMAIN certs' PROVE \E j \in CasOf(im, n + 1) : Name(certs'[i]) = Name(im[j])
      <4>1. CASE i \in DOMAIN certs
        <5>1. PICK j \in CasOf(im, n) : Name(certs[i]) = Name(im[j])
          BY <2>1, <4>1, Zenon DEF CasOwn
        <5> QED
          BY <3>2, <3>3, <4>1, <5>1, Zenon
      <4>2. CASE i = Len(certs) + 1
        BY <1>2, <3>2, <3>3, <4>2, Zenon
      <4> QED
        BY <3>2, <4>1, <4>2, Zenon
    <3>5. ASSUME NEW j \in CasOf(im, n + 1)
          PROVE  \E i \in DOMAIN certs' : Name(certs'[i]) = Name(im[j])
      <4>1. CASE j \in CasOf(im, n)
        <5>1. PICK i \in DOMAIN certs : Name(certs[i]) = Name(im[j])
          BY <2>1, <4>1, Zenon DEF CasOwn
        <5> QED
          BY <3>2, <5>1, Zenon
      <4>2. CASE j = n
        BY <1>2, <3>2, <4>2, Zenon
      <4> QED
        BY <3>3, <4>1, <4>2, Zenon
    <3> QED
      BY <3>4, <3>5, Zenon DEF CasOwn, CasOf, Name
  <2> QED
    BY <2>2, <2>3
<1>7. EndOwn(im, n + 1)'
  <2>1. EndOwn(im, n)
    BY Zenon DEF Own
  <2>2. CASE ~IsEnd(o)
    <3>1. EndsOf(im, n + 1) = EndsOf(im, n)
      BY <1>4, <2>2, Zenon DEF EndsOf
    <3>2. endCert' = endCert
      BY <1>3, <2>2, Zenon
    <3>3. EndOwn(im, n + 1)
      BY <2>1, <3>1, Zenon DEF EndOwn
    <3> QED
      BY <3>2, <3>3, Zenon DEF EndOwn, EndsOf
  <2>3. CASE IsEnd(o)
    <3>1. DOMAIN endCert = {}
      <4>1. endCert = <<>>
        BY <2>3, NoEndBefore, Zenon DEF IsEnd
      <4> QED
        BY <4>1, EmptySeq, Zenon
    <3>2. \A j : j \in EndsOf(im, n + 1) <=> j = n
      BY <1>4, <2>1, <2>3, <3>1, Zenon DEF EndOwn, EndsOf
    <3>3. DOMAIN endCert' = {1} /\ endCert'[1] = c
      <4>1. endCert' = <<c>>
        BY <1>3, <2>3, Zenon
      <4> QED
        BY <4>1
    <3> QED
      BY <1>2, <3>2, <3>3, Zenon DEF EndOwn, EndsOf, Name
  <2> QED
    BY <2>2, <2>3
<1>8. LastKey(im, n + 1, key)'
  <2>1. LastKey(im, n, key)
    BY Zenon DEF Own
  <2> SUFFICES ASSUME NEW j \in 1..((n + 1) - 1), im[j].type = "key",
                      \A i \in (j + 1)..((n + 1) - 1) : im[i].type # "key"
               PROVE  key' = im[j].key
    BY Zenon DEF LastKey
  <2>2. CASE j = n
    BY <1>3, <2>2, Zenon
  <2>3. CASE j \in 1..(n - 1)
    <3>1. n \in (j + 1)..((n + 1) - 1) /\ \A i \in (j + 1)..(n - 1) : i \in (j + 1)..((n + 1) - 1)
      BY <2>3
    <3>2. o.type # "key"
      BY <3>1, Zenon
    <3> QED
      BY <1>3, <2>1, <2>3, <3>1, <3>2, Zenon DEF LastKey
  <2> QED
    BY <1>4, <2>2, <2>3, Zenon
<1> QED
  BY <1>5, <1>6, <1>7, <1>8, Zenon DEF Own

\* A pass starts with no certificates and at the first object.
LEMMA OwnStart ==
  ASSUME NEW im, NoCerts
  PROVE  Own(im, 1)
<1>1. 1..(1 - 1) = {}
  OBVIOUS
<1>2. DOMAIN certs = {} /\ DOMAIN endCert = {}
  BY EmptySeq, Zenon DEF NoCerts
<1>3. RootOwn(im, 1) /\ LastKey(im, 1, key)
  BY <1>1, Zenon DEF RootOwn, LastKey, NoCerts
<1>4. CasOwn(im, 1) /\ EndOwn(im, 1)
  BY <1>1, <1>2, Zenon DEF CasOwn, EndOwn, CasOf, EndsOf
<1> QED
  BY <1>3, <1>4, Zenon DEF Own

\* The same of the image and the offset the call leaves.
LEMMA OwnAt ==
  ASSUME NEW im, NEW n, Image' = im, offset' = n, Own(im, n)'
  PROVE  Own(Image, offset)'
<1>1. RootOwn(Image, offset)'
  BY Zenon DEF Own, RootOwn
<1>2. CasOwn(Image, offset)'
  <2>1. CasOf(Image, offset)' = CasOf(im, n)'
    BY Zenon DEF CasOf
  <2>2. \A j : Name(Image[j])' = Name(im[j])
    BY Zenon DEF Name
  <2>3. CasOwn(im, n)'
    BY Zenon DEF Own
  <2> QED
    BY <2>1, <2>2, <2>3, Zenon DEF CasOwn
<1>3. EndOwn(Image, offset)'
  <2>1. EndsOf(Image, offset)' = EndsOf(im, n)'
    BY Zenon DEF EndsOf
  <2>2. \A j : Name(Image[j])' = Name(im[j])
    BY Zenon DEF Name
  <2>3. EndOwn(im, n)'
    BY Zenon DEF Own
  <2> QED
    BY <2>1, <2>2, <2>3, Zenon DEF EndOwn
<1>4. LastKey(Image, offset, key)'
  BY Zenon DEF Own, LastKey
<1> QED
  BY <1>1, <1>2, <1>3, <1>4, Zenon DEF Own

\* Nothing the table is compared with changes.
LEMMA OwnSame ==
  ASSUME NEW im, NEW n, Own(im, n), UNCHANGED <<root, certs, endCert, key, otp>>
  PROVE  Own(im, n)'
<1>1. RootOwn(im, n)'
  BY Zenon DEF Own, RootOwn
<1>2. CasOwn(im, n)'
  BY Zenon DEF Own, CasOwn, CasOf, Name
<1>3. EndOwn(im, n)'
  BY Zenon DEF Own, EndOwn, EndsOf, Name
<1>4. LastKey(im, n, key)'
  BY Zenon DEF Own, LastKey
<1> QED
  BY <1>1, <1>2, <1>3, <1>4, Zenon DEF Own

\* The passes over the images.
LEMMA OwnPass ==
  ASSUME ExecutorInv, ChainInv, OwnInv, NEW f \in Failure,
         SblimgUpdate(f) \/ \E held \in BOOLEAN : SblimgCheck(f, held)
  PROVE  OwnInv'
<1>1. /\ pass \in {"check", "load"} /\ pass' = pass /\ ret = "NO_ERR" /\ UNCHANGED <<flash, otp>>
      /\ offset' = IF ret' = "NO_ERR" THEN offset + 1 ELSE offset
      /\ pass = "load" => recovery' = recovery
  BY Zenon DEF SblimgUpdate, SblimgCheck, Advance
<1>2. Image' = Image
  <2>1. Selected' = Selected
    BY <1>1 DEF Selected
  <2> QED
    BY <1>1, <2>1, Zenon DEF Image
<1> SUFFICES ASSUME ret' \in {"NO_ERR", "LOAD_FINISH"} PROVE Own(Image, offset)'
  BY Zenon DEF OwnInv
<1>3. PICK im : im = Image
  OBVIOUS
<1>4. PICK n : n = offset
  OBVIOUS
<1>5. Own(im, n) /\ TableInv /\ n \in Nat \ {0}
  BY <1>1, <1>3, <1>4, Zenon DEF OwnInv, ChainInv, ExecutorInv, TypeInv
<1>6. PICK o : o = AtOffset
  OBVIOUS
<1>7. PICK d : d = BadAtOffset
  OBVIOUS
<1>8. \/ /\ ObjectStatus(o, d, f) = "NO_ERR" /\ o.type \in Payload
         /\ UNCHANGED <<root, certs, endCert, key>>
      \/ /\ ret' = ObjectStatus(o, d, f) /\ Take(o, d, f)
         /\ ~(ObjectStatus(o, d, f) = "NO_ERR" /\ o.type \in Payload)
  BY <1>6, <1>7, Zenon DEF SblimgUpdate, SblimgCheck, cryptoVars
<1>9. ObjectStatus(o, d, f) # "LOAD_FINISH"
  BY NotFinish
<1>10. ObjectStatus(o, d, f) = "NO_ERR"
  BY <1>8, <1>9
<1>11. o = im[n]
  <2>1. d # "id"
    BY <1>10, Accepts, Zenon
  <2>2. ~(offset > Len(Image))
    BY <1>7, <2>1 DEF BadAtOffset
  <2>3. Len(Image) \in Nat
    BY ImageLength DEF ExecutorInv
  <2>4. offset <= Len(Image)
    BY <1>4, <1>5, <2>2, <2>3
  <2> QED
    BY <1>3, <1>4, <1>6, <2>4, Zenon DEF AtOffset
<1>12. CASE ret' = "NO_ERR"
  <2>1. \/ Take(o, d, f)
        \/ o.type \in Payload /\ UNCHANGED <<root, certs, endCert, key>>
    BY <1>8, Zenon
  <2>2. Own(im, n + 1)'
    BY <1>1, <1>5, <1>10, <1>11, <2>1, OwnStep, Zenon
  <2>3. offset' = n + 1 /\ Image' = im
    BY <1>1, <1>2, <1>3, <1>4, <1>12, Zenon
  <2> QED
    BY <2>2, <2>3, OwnAt, Zenon
<1>13. CASE ret' = "LOAD_FINISH"
  <2>1. UNCHANGED <<root, certs, endCert, key>>
    BY <1>8, <1>9, <1>13, Zenon
  <2>2. Own(im, n)'
    BY <1>1, <1>5, <2>1, OwnSame, Zenon
  <2>3. offset' = n /\ Image' = im
    BY <1>1, <1>2, <1>3, <1>4, <1>13
  <2> QED
    BY <2>2, <2>3, OwnAt, Zenon
<1> QED
  BY <1>12, <1>13

\* Every call keeps the table that of the image at hand.
LEMMA OwnNext ==
  ASSUME ExecutorInv, ChainInv, OwnInv, [Next]_vars
  PROVE  OwnInv'
<1>1. CASE SblimgAbort \/ SkipCheck \/ \E f \in Failure : SblimgFinish(f)
  <2>1. pass' \in {"checked", "running", "panic"}
    BY <1>1, Zenon DEF SblimgAbort, SkipCheck, SblimgFinish
  <2> QED
    BY <2>1 DEF OwnInv
<1>2. CASE \E f \in Failure : StartCheck(f) \/ StartLoad(f)
  <2>1. /\ pass \in {"boot", "checked"} /\ UNCHANGED <<root, certs, endCert>> /\ offset' = 1
    BY <1>2, Zenon DEF StartCheck, StartLoad, SblimgInit, cryptoVars
  <2>2. NoCerts'
    BY <2>1, Zenon DEF ExecutorInv, BeforeInv, NoCerts
  <2>3. PICK im : im = Image'
    OBVIOUS
  <2>4. (NoCerts => Own(im, 1))'
    BY OwnStart, PTL
  <2>5. Own(im, 1)'
    BY <2>2, <2>4, Zenon
  <2>6. Own(Image, offset)'
    BY <2>1, <2>3, <2>5, OwnAt, Zenon
  <2> QED
    BY <2>6, Zenon DEF OwnInv
<1>3. CASE UNCHANGED vars
  <2>1. UNCHANGED <<root, certs, endCert, key, otp>> /\ UNCHANGED <<flash, recovery, pass, ret, offset>>
    BY <1>3, Zenon DEF vars, cryptoVars
  <2>2. Image' = Image
    BY <2>1, Zenon DEF Image, Selected
  <2>3. PICK im : im = Image
    OBVIOUS
  <2>4. PICK n : n = offset
    OBVIOUS
  <2>5. Own(im, n) => Own(Image, offset)'
    BY <2>1, <2>2, <2>3, <2>4, OwnSame, OwnAt, Zenon
  <2> QED
    BY <2>1, <2>3, <2>4, <2>5, Zenon DEF OwnInv
<1>4. ASSUME NEW f \in Failure, Call(f) PROVE OwnInv'
  BY <1>1, <1>2, <1>4, OwnPass, Zenon DEF Call
<1> QED
  BY <1>1, <1>3, <1>4, Zenon DEF Next

\* The certificates in use are exactly those in front of image_offset of the image
\* that is worked on, in both passes, and the key is the last one in front of it
\* if there is one, for all images, damage and failing operations (crypto_free,
\* sblimg_check, sblimg_update).
THEOREM TableIsOfThisImageInvariant == Spec => []TableIsOfThisImage
<1>1. Init => ChainInv /\ OwnInv
  <2> SUFFICES ASSUME Init PROVE ChainInv /\ OwnInv
    OBVIOUS
  <2>1. NoCerts
    BY Zenon DEF Init, NoCerts
  <2>2. pass = "boot"
    BY Zenon DEF Init
  <2>3. OwnInv
    BY <2>2 DEF OwnInv
  <2> QED
    BY <2>1, <2>3, EmptyChain, Zenon
<1>2. OwnInv => TableIsOfThisImage
  <2> SUFFICES ASSUME Own(Image, offset)
               PROVE  /\ root # "" => \E i \in 1..(offset - 1) : Image[i].type = "root"
                      /\ \A i \in 1..(offset - 1) : Image[i].type = "root" => root = Image[i].subject
                      /\ {Name(certs[i]) : i \in DOMAIN certs}
                           = {Name(Image[i]) : i \in {j \in 1..(offset - 1) : IsCa(Image[j])}}
                      /\ {Name(endCert[i]) : i \in DOMAIN endCert}
                           = {Name(Image[i]) : i \in {j \in 1..(offset - 1) : IsEnd(Image[j])}}
                      /\ LastKey(Image, offset, key)
    BY Zenon DEF OwnInv, TableIsOfThisImage
  <2>1. /\ root # "" => \E i \in 1..(offset - 1) : Image[i].type = "root"
        /\ \A i \in 1..(offset - 1) : Image[i].type = "root" => root = Image[i].subject
        /\ LastKey(Image, offset, key)
    BY Zenon DEF Own, RootOwn
  <2>2. {Name(certs[i]) : i \in DOMAIN certs} = {Name(Image[i]) : i \in CasOf(Image, offset)}
    <3>1. PICK cs : cs = CasOf(Image, offset)
      OBVIOUS
    <3>2. /\ \A i \in DOMAIN certs : \E j \in cs : Name(certs[i]) = Name(Image[j])
          /\ \A j \in cs : \E i \in DOMAIN certs : Name(certs[i]) = Name(Image[j])
      BY <3>1, Zenon DEF Own, CasOwn
    <3>3. {Name(certs[i]) : i \in DOMAIN certs} = {Name(Image[i]) : i \in cs}
      BY <3>2
    <3> QED
      BY <3>1, <3>3
  <2>3. {Name(endCert[i]) : i \in DOMAIN endCert} = {Name(Image[i]) : i \in EndsOf(Image, offset)}
    <3>1. PICK es : es = EndsOf(Image, offset)
      OBVIOUS
    <3>2. /\ \A i \in DOMAIN endCert : \E j \in es : Name(endCert[i]) = Name(Image[j])
          /\ \A j \in es : \E i \in DOMAIN endCert : Name(endCert[i]) = Name(Image[j])
      BY <3>1, Zenon DEF Own, EndOwn
    <3>3. {Name(endCert[i]) : i \in DOMAIN endCert} = {Name(Image[i]) : i \in es}
      BY <3>2
    <3> QED
      BY <3>1, <3>3
  <2> QED
    BY <2>1, <2>2, <2>3, Zenon DEF CasOf, EndsOf
<1> QED
  BY <1>1, <1>2, ChainStep, OwnNext, ExecutorInvariant, PTL DEF Spec
=============================================================================
