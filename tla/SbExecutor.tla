----------------------------- MODULE SbExecutor -----------------------------
(***************************************************************************)
(* The image executor (libs/sbimage/sbexecutor.c) as SBL-S2 drives it: one *)
(* pass of sblimg_check over the recovery image, in which the factory      *)
(* reset button may select recovery, then one pass of sblimg_update over   *)
(* the selected image, then sblimg_finish.                                 *)
(*                                                                         *)
(* An image is a sequence of objects, each with its header as it is read   *)
(* from flash; image_offset is the number of the object.  Whether it is    *)
(* intact is told apart from the object: what does not agree is the magic  *)
(* number ("id"), the header and its hash ("hash"), or the data and the    *)
(* digest or signature they were built with ("body").                      *)
(***************************************************************************)
EXTENDS Naturals, Sequences

CONSTANTS MaxCa,           \* CONFIG_X509_MAX_CA_CERTS
          Images,          \* images, by name: Images[n] is a sequence of objects
          MaxLen,          \* bound on the number of objects in an image
          Starts,          \* contents of flash, damage and OTP at power-on
          MaxFaults,       \* bound on failing reads and allocations
          RecoveryEnable   \* values of the RECOVERY_ENABLE build option

Slot == {"R", "A"}         \* the recovery image and the selected volume
Damage == {"none", "id", "hash", "body"}
Payload == {"no_return", "with_return", "no_exec"}
Names == DOMAIN Images

Otp == [force_sign : BOOLEAN, force_encrypt : BOOLEAN, rotpk : STRING]

\* Images are built by tl-sbimg: a signed payload has an end certificate in front
\* of it, one that is signed as it is enciphered has its key in front of it, and
\* certificates have identifiers other than 0.  Damage that is not noticed leaves
\* this as it is: elsewhere the code uses certificates that are not there.
ASSUME ExecutorAssumption ==
  /\ MaxLen \in Nat
  /\ \A n \in Names : Len(Images[n]) \in 1..MaxLen /\ DOMAIN Images[n] = 1..Len(Images[n])
  /\ MaxCa \in Nat /\ MaxFaults \in Nat /\ RecoveryEnable \subseteq BOOLEAN
  /\ Starts \subseteq [flash : [Slot -> Names], bad : [Slot -> [1..MaxLen -> Damage]], otp : Otp]
  /\ \A n \in Names : \A i \in DOMAIN Images[n] :
       /\ Images[n][i].type \in Payload /\ Images[n][i].signed_obj
            => \E j \in 1..(i - 1) : Images[n][j].type = "non_root" /\ ~Images[n][j].ca
       /\ Images[n][i].type \in Payload /\ Images[n][i].sign_of_encrypted
            => \E j \in 1..(i - 1) :
                 /\ Images[n][j].type = "key" /\ Images[n][j].key = Images[n][i].key
                 /\ \A k \in (j + 1)..(i - 1) : Images[n][k].type # "key"
       /\ Images[n][i].type = "key" => Images[n][i].sign_cert_id # 0

VARIABLES
  flash,      \* name of the image in each slot
  bad,        \* damage of each object of each image
  otp,        \* force_sign, force_encrypt and the digest of the root certificate
  pass,       \* "boot", "check", "checked", "load", "running" or "panic"
  ret,        \* result of the last sblimg_ call
  offset,     \* sb_mem.image_offset, counted in objects
  root,       \* subject of x509_root, "" if NULL
  certs,      \* non_root_cert[0 .. cert_index - 1] with their cert_id
  endCert,    \* end certificate at cert_index; <<>> unless end_cert_has_been_handled
  key,        \* encrypted_key and key_number
  recovery,   \* recovery_mode
  mem,        \* what is at the load address of each object of the selected image
  ran,        \* history: objects started so far
  faults      \* failing reads and allocations so far

cryptoVars == <<root, certs, endCert>>
vars == <<flash, bad, otp, pass, ret, offset, cryptoVars, key, recovery, mem, ran, faults>>

Selected == IF pass \in {"boot", "check", "checked"} \/ recovery THEN "R" ELSE "A"

\* The object at image_offset.  Behind the last one there is no magic number.
Blank == [type |-> "blank"]
Image == Images[flash[Selected]]
AtOffset == IF offset <= Len(Image) THEN Image[offset] ELSE Blank
BadAtOffset == IF offset > Len(Image) THEN "id" ELSE bad[Selected][offset]

\* A sequence of CHECK_OK(status, condition): the first condition that holds
\* decides the status.
FirstError(checks) ==
  LET failing == {i \in DOMAIN checks : checks[i][2]}
  IN  IF failing = {} THEN "NO_ERR"
      ELSE checks[CHOOSE i \in failing : \A j \in failing : i <= j][1]
-----------------------------------------------------------------------------
(***************************************************************************)
(* The checks of sblimg_check and sblimg_update, object type by type.  `d' *)
(* is the damage of the object and `f' what fails while it is handled: the *)
(* read of the header, the read or allocation of the signature or of the   *)
(* object's data, or an allocation of the cryptographic library.           *)
(***************************************************************************)

HeaderChecks(o, d, f) ==
  << <<"EINTERNAL", f = "header">>,
     <<"BAD_HEADER_ID", d = "id">>,
     <<"EINTERNAL", f = "data" /\ o.type \in {"root", "non_root", "key"}>>,
     <<"EINTERNAL", f = "signature" /\ o.type = "key" /\ o.signed_obj>>,
     <<"BAD_HEADER_HASH", d = "hash" /\ ~o.skip_header_hash>> >>

\* A signature is good if the text it was made of is intact and no number of the
\* RSA computation runs out of memory.
SignatureVerify(intact, f) == intact /\ f # "crypto"

\* Only the root certificate is self-signed, and it is its own issuer.
X509CertVerify(o, d) == d # "body" /\ (o.type = "root" <=> o.subject = o.issuer)

\* x509_new reports MALLOC_ERR for a certificate it cannot parse as well; damage
\* is reported here by the signature check that follows, with the same effect.
RootChecks(o, d, f) ==
  << <<"ROOT_CERT_IS_NOT_FIRST", certs # <<>> >>,
     <<"MALLOC_ERR", f = "crypto">>,
     <<"ROOT_CERT_X509_ERR", ~X509CertVerify(o, d)>>,
     <<"ROOT_CERT_BAD_HASH", o.subject # otp.rotpk>> >>

\* Certificates that may have issued o: 0 is the root certificate.
Issuers(o) == {i \in DOMAIN certs : certs[i].subject = o.issuer}
                \cup (IF root = o.issuer THEN {0} ELSE {})

\* Mutant: identifiers in use are not looked for.
NonRootChecksAnyId(o, d, f) ==
  << <<"NON_ROOT_CERT_X509_ERR", endCert # <<>> >>,
     <<"NON_ROOT_CERT_TOO_MUCH_CERTS", Len(certs) >= MaxCa>>,
     <<"NON_ROOT_CERT_IS_FIRST", root = "">>,
     <<"NON_ROOT_CERT_X509_ERR", FALSE>>,
     <<"MALLOC_ERR", f = "crypto">>,
     <<"NON_ROOT_CERT_X509_ERR", Issuers(o) = {}>>,
     <<"NON_ROOT_CERT_X509_ERR", ~X509CertVerify(o, d)>> >>

NonRootChecks(o, d, f) ==
  << <<"NON_ROOT_CERT_X509_ERR", endCert # <<>> >>,
     <<"NON_ROOT_CERT_TOO_MUCH_CERTS", Len(certs) >= MaxCa>>,
     <<"NON_ROOT_CERT_IS_FIRST", root = "">>,
     <<"NON_ROOT_CERT_X509_ERR", \E i \in DOMAIN certs : certs[i].id = o.id>>,
     <<"MALLOC_ERR", f = "crypto">>,
     <<"NON_ROOT_CERT_X509_ERR", Issuers(o) = {}>>,
     <<"NON_ROOT_CERT_X509_ERR", ~X509CertVerify(o, d)>> >>

\* The certificate sign_cert_id names; the end certificate counts as well.
SignedBy(o) == {c \in {certs[i] : i \in DOMAIN certs} \cup {endCert[i] : i \in DOMAIN endCert} :
                  c.id = o.sign_cert_id}

KeyChecks(o, d, f) ==
  << <<"ENC_KEY_BAD_CERT_CHAIN", otp.force_sign /\ endCert = <<>> >>,
     <<"ENC_KEY_IS_NOT_SIGNED", otp.force_sign /\ ~o.signed_obj>>,
     <<"NON_ROOT_CERT_TOO_MUCH_CERTS", SignedBy(o) = {}>>,
     <<"ENC_KEY_BAD_SIGNATURE", ~o.signed_obj \/ ~SignatureVerify(d # "body", f)>> >>

\* Mutant: force_sign is looked up for keys only.
PayloadChecksUnsigned(o) ==
  << <<"PAYLOAD_IS_NOT_ENCRYPTED", otp.force_encrypt /\ ~o.encrypted>> >>

PayloadChecks(o) ==
  << <<"PAYLOAD_BAD_CERT_CHAIN", otp.force_sign /\ endCert = <<>> >>,
     <<"PAYLOAD_IS_NOT_SIGNED", otp.force_sign /\ ~o.signed_obj>>,
     <<"PAYLOAD_IS_NOT_ENCRYPTED", otp.force_encrypt /\ ~o.encrypted>> >>
-----------------------------------------------------------------------------
(***************************************************************************)
(* image_handle.  The text of a payload is "plain", "cipher", "damaged" or *)
(* "garbage" (deciphered with a key it was not enciphered with).           *)
(***************************************************************************)

\* Mutant: sign_of_encrypted does not change the order.
ChainFixed(o) == <<IF o.encrypted THEN "decipher" ELSE "nope",
                   IF o.checksum THEN "check" ELSE "nope",
                   IF o.signed_obj THEN "verification" ELSE "nope">>

\* The order of the actions.
Chain(o) ==
  IF o.sign_of_encrypted
  THEN <<"verification", IF o.checksum THEN "check" ELSE "nope", "decipher">>
  ELSE <<IF o.encrypted THEN "decipher" ELSE "nope",
         IF o.checksum THEN "check" ELSE "nope",
         IF o.signed_obj THEN "verification" ELSE "nope">>

\* The text that digest and signature were made of.
Signed(o) == IF o.sign_of_encrypted THEN "cipher" ELSE "plain"

Deciphered(o, text) ==
  IF text = "damaged" THEN "damaged"
  ELSE IF text = "cipher" /\ key = o.key THEN "plain" ELSE "garbage"

\* One action of the chain, given the result so far.
Act(o, a, f, s) ==
  IF s.status # "NO_ERR" THEN s
  ELSE IF a = "decipher" THEN [status |-> "NO_ERR", text |-> Deciphered(o, s.text)]
  ELSE IF a = "check" /\ s.text # Signed(o)
       THEN [status |-> "PAYLOAD_BAD_HASH", text |-> s.text]
  ELSE IF a = "verification"
            /\ ~SignatureVerify(s.text = Signed(o) /\ endCert[1].id = o.sign_cert_id, f)
       THEN [status |-> "PAYLOAD_BAD_SIGNATURE", text |-> s.text]
  ELSE s

\* Mutant: what failed its checks is left in memory.
ImageHandleKeeps(o, d, f) ==
  LET read == [status |-> IF f \in {"signature", "data"} THEN "EINTERNAL" ELSE "NO_ERR",
               text |-> IF d = "body" THEN "damaged"
                        ELSE IF o.encrypted THEN "cipher" ELSE "plain"]
  IN  Act(o, Chain(o)[3], f, Act(o, Chain(o)[2], f, Act(o, Chain(o)[1], f, read)))

\* Result of image_handle before the callback: the status and the text that is
\* left in memory.  Every error zeroes the memory, except that of a signature
\* that cannot be read: l_addr is still NULL then, and memset_s writes to the
\* flash window at address 0, away from every load address (see Returned).
ImageHandle(o, d, f) ==
  LET read == [status |-> IF f \in {"signature", "data"} THEN "EINTERNAL" ELSE "NO_ERR",
               text |-> IF d = "body" THEN "damaged"
                        ELSE IF o.encrypted THEN "cipher" ELSE "plain"]
      done == Act(o, Chain(o)[3], f, Act(o, Chain(o)[2], f, Act(o, Chain(o)[1], f, read)))
  IN  IF done.status = "NO_ERR" THEN done
      ELSE [status |-> done.status, text |-> IF f = "signature" THEN "old" ELSE "zero"]
-----------------------------------------------------------------------------
(***************************************************************************)
(* The calls.                                                              *)
(***************************************************************************)

Failure == {"none", "header", "signature", "data", "crypto"}

\* What can fail while o is handled.
CanFail(o, f) ==
  CASE f = "signature" -> o.type \in Payload \cup {"key"} /\ o.signed_obj
    [] f = "data" -> o.type \in Payload \cup {"root", "non_root", "key"}
    [] f = "crypto" -> o.type \in {"root", "non_root", "key"}
                         \/ (o.type \in Payload /\ o.signed_obj)
    [] OTHER -> TRUE

Faulty(f) == faults' = IF f = "none" THEN faults ELSE faults + 1

TypeChecks(o, d, f) ==
  IF o.type = "root" THEN RootChecks(o, d, f)
  ELSE IF o.type = "non_root" THEN NonRootChecks(o, d, f)
  ELSE IF o.type = "key" THEN KeyChecks(o, d, f)
  ELSE IF o.type \in Payload THEN PayloadChecks(o)
  ELSE <<>>

ObjectStatus(o, d, f) ==
  LET header == FirstError(HeaderChecks(o, d, f))
  IN  IF header # "NO_ERR" THEN header ELSE FirstError(TypeChecks(o, d, f))

\* x509_new has set x509_root or non_root_cert[cert_index]: everything in front
\* of the verification of the certificate was passed.
Parsed(o, d, f) ==
  /\ o.type \in {"root", "non_root"}
  /\ FirstError(HeaderChecks(o, d, f)) = "NO_ERR"
  /\ FirstError(SubSeq(TypeChecks(o, d, f), 1, IF o.type = "root" THEN 2 ELSE 5)) = "NO_ERR"

\* The issuer found for o; cert_index + 1 stands for none.
Via(o) == IF root = o.issuer THEN 0
          ELSE IF Issuers(o) = {} THEN Len(certs) + 1
          ELSE CHOOSE i \in Issuers(o) : \A j \in Issuers(o) : j <= i
Cert(o) == [id |-> o.id, subject |-> o.subject, issuer |-> o.issuer, via |-> Via(o)]

\* What a certificate or a key leaves behind.  A root certificate and an end
\* certificate stay in their places even if their verification fails.
Take(o, d, f) ==
  LET ok == ObjectStatus(o, d, f) = "NO_ERR"
  IN  /\ root' = IF o.type = "root" /\ Parsed(o, d, f) THEN o.subject ELSE root
      /\ certs' = IF o.type = "non_root" /\ o.ca /\ ok THEN Append(certs, Cert(o)) ELSE certs
      /\ endCert' = IF o.type = "non_root" /\ ~o.ca /\ Parsed(o, d, f)
                    THEN <<Cert(o)>> ELSE endCert
      /\ key' = IF o.type = "key" /\ ok THEN o.key ELSE key

\* Mutant: end_cert_has_been_handled survives.
CryptoFreeNotEnd == root' = "" /\ certs' = <<>> /\ UNCHANGED endCert

CryptoFree == root' = "" /\ certs' = <<>> /\ endCert' = <<>>

\* What a call that reports `status' comes to.  If image_handle fails while l_addr
\* is NULL (`null'), its memset_s may raise an exception: the call does not return.
Returned(status, null) == {status} \cup (IF null THEN {"EXCEPTION"} ELSE {})

\* The size of the object is added at the end, which every error jumps over.
Advance == offset' = IF ret' = "NO_ERR" THEN offset + 1 ELSE offset

\* sblimg_init: the OTP dump may not be available.
SblimgInit(f) ==
  /\ f \in {"none", "data"}
  /\ ret' = IF f = "data" THEN "ENULL" ELSE "NO_ERR"
  /\ offset' = 1
  /\ Faulty(f)

StartCheck(f) ==
  /\ TRUE \in RecoveryEnable
  /\ pass = "boot" /\ pass' = "check"
  /\ SblimgInit(f)
  /\ UNCHANGED <<flash, bad, otp, cryptoVars, key, recovery, mem, ran>>

SkipCheck ==
  /\ FALSE \in RecoveryEnable
  /\ pass = "boot" /\ pass' = "checked"
  /\ UNCHANGED <<flash, bad, otp, ret, offset, cryptoVars, key, recovery, mem, ran, faults>>

\* sblimg_check with check_recovery_image as chck_img; `held' is whether the
\* button stays pressed until the time is over.
SblimgCheck(f, held) ==
  /\ pass = "check" /\ ret = "NO_ERR" /\ CanFail(AtOffset, f)
  /\ LET o == AtOffset
         st == ObjectStatus(o, BadAtOffset, f)
         img == ImageHandle(o, BadAtOffset, f)
     IN  IF st = "NO_ERR" /\ o.type \in Payload
         THEN /\ recovery' = (img.status = "NO_ERR" /\ o.dtb /\ held)
              /\ ret' \in Returned(IF img.status # "NO_ERR" THEN img.status
                                   ELSE IF recovery' \/ o.type = "no_return" THEN "LOAD_FINISH"
                                   ELSE "NO_ERR", f \in {"signature", "data"})
              /\ UNCHANGED <<cryptoVars, key>>
         ELSE /\ ret' = st
              /\ Take(o, BadAtOffset, f)
              /\ UNCHANGED recovery
  /\ Advance
  /\ Faulty(f)
  /\ UNCHANGED <<flash, bad, otp, pass, mem, ran>>

SblimgAbort ==
  /\ pass = "check" /\ ret \notin {"NO_ERR", "EXCEPTION"}
  /\ CryptoFree
  /\ pass' = "checked"
  /\ UNCHANGED <<flash, bad, otp, ret, offset, key, recovery, mem, ran, faults>>

StartLoad(f) ==
  /\ pass = "checked"
  /\ pass' = "load"
  /\ SblimgInit(f)
  /\ UNCHANGED <<flash, bad, otp, cryptoVars, key, recovery, mem, ran>>

\* sblimg_update.  `fits': the load address passes check_load_address; `entry':
\* the entry address passes check_exec_address, asked when the code is in memory.
SblimgUpdate(f) ==
  /\ pass = "load" /\ ret = "NO_ERR" /\ CanFail(AtOffset, f)
  /\ LET o == AtOffset
         st == ObjectStatus(o, BadAtOffset, f)
         img == ImageHandle(o, BadAtOffset, f)
     IN  IF st = "NO_ERR" /\ o.type \in Payload
         THEN IF ~o.fits
              THEN ret' = "EINVALIDDATA" /\ UNCHANGED <<cryptoVars, key, mem, ran>>
              ELSE /\ mem' = [mem EXCEPT ![offset] = img.text]  \* loaded only once
                   /\ ret' \in Returned(IF img.status # "NO_ERR" THEN img.status
                                        ELSE IF o.type = "no_return" THEN "LOAD_FINISH"
                                        ELSE IF o.type = "with_return" /\ ~o.entry
                                        THEN "EINVALIDDATA" ELSE "NO_ERR", f = "signature")
                   /\ ran' = IF ret' = "NO_ERR" /\ o.type = "with_return"
                             THEN Append(ran, offset) ELSE ran
                   /\ UNCHANGED <<cryptoVars, key>>
         ELSE /\ ret' = st
              /\ Take(o, BadAtOffset, f)
              /\ UNCHANGED <<mem, ran>>
  /\ Advance
  /\ Faulty(f)
  /\ UNCHANGED <<flash, bad, otp, pass, recovery>>

\* sblimg_finish reads the header of the last payload once more.
SblimgFinish(f) ==
  /\ pass = "load" /\ ret \notin {"NO_ERR", "EXCEPTION"}
  /\ f \in {"none", "header"} /\ (f = "header" => ret = "LOAD_FINISH")
  /\ CryptoFree
  /\ IF ret = "LOAD_FINISH" /\ f = "none" /\ AtOffset.entry
     THEN pass' = "running" /\ ran' = Append(ran, offset)
     ELSE pass' = "panic" /\ UNCHANGED ran
  /\ Faulty(f)
  /\ UNCHANGED <<flash, bad, otp, ret, offset, key, recovery, mem>>
-----------------------------------------------------------------------------
Init ==
  /\ \E s \in Starts : flash = s.flash /\ bad = s.bad /\ otp = s.otp
  /\ pass = "boot" /\ ret = "NO_ERR" /\ offset = 1
  /\ root = "" /\ certs = <<>> /\ endCert = <<>> /\ key = 0
  /\ recovery = FALSE /\ mem = [i \in 1..MaxLen |-> "old"] /\ ran = <<>> /\ faults = 0

Call(f) == StartCheck(f) \/ (\E held \in BOOLEAN : SblimgCheck(f, held))
             \/ StartLoad(f) \/ SblimgUpdate(f) \/ SblimgFinish(f)

Next == SblimgAbort \/ SkipCheck \/ \E f \in Failure : (f # "none" => faults < MaxFaults) /\ Call(f)

Spec == Init /\ [][Next]_vars
-----------------------------------------------------------------------------
Protected(o) == o.type \in Payload /\ (o.checksum \/ o.signed_obj)

\* As long as no call has failed, every certificate in use was issued by the root certificate or by one that
\* was accepted before it, identifiers are unique, and the end certificate
\* ends the chain (the NON_ROOT_CERTIFICATE cases).
ChainAnchored ==
  /\ ret \in {"NO_ERR", "LOAD_FINISH"} =>
       /\ certs # <<>> \/ endCert # <<>> => root = otp.rotpk
       /\ \A c \in {certs[i] : i \in DOMAIN certs} \cup {endCert[i] : i \in DOMAIN endCert} :
            IF c.via = 0 THEN c.issuer = root
                         ELSE c.via \in DOMAIN certs /\ c.issuer = certs[c.via].subject
  /\ \A i, j \in DOMAIN certs : certs[i].id = certs[j].id => i = j
  /\ \A i \in DOMAIN certs : certs[i].via < i

\* Where a payload with a digest or a signature was to be loaded there is, after
\* each call, what was there before, zeros, or the payload as it was built: never
\* a damaged or wrongly deciphered one (image_handle).
OnlyIntactCodeInMemory ==
  \A i \in 1..MaxLen :
    (i <= Len(Image) /\ Protected(Image[i]))
      => mem[i] \in {"old", "zero", "plain"}

\* Code is started only after all objects in front of it were accepted, loaded
\* and checked in this pass, on a board with force_sign only signed code.  Damage
\* of a header is noticed unless the header itself, as it is read, says that its
\* hash is not to be checked (CHECK_HEADER); certificates and keys have intact
\* data, and payloads whose header promises a digest or a signature are in memory
\* as they were built.
StartedCodeIsComplete ==
  \A n \in DOMAIN ran : \A i \in 1..ran[n] :
    LET o == Image[i]
    IN  /\ bad[Selected][i] # "id"
        /\ bad[Selected][i] = "hash" => o.skip_header_hash
        /\ Protected(o) => mem[i] = "plain"
        /\ o.type \in Payload /\ otp.force_sign => o.signed_obj
        /\ o.type \in {"root", "non_root", "key"} => bad[Selected][i] # "body"

IsCa(o) == o.type = "non_root" /\ o.ca
IsEnd(o) == o.type = "non_root" /\ ~o.ca

\* k is the key of the last key object in front of object n.
LastKey(im, n, k) ==
  \A j \in 1..(n - 1) :
    im[j].type = "key" /\ (\A i \in (j + 1)..(n - 1) : im[i].type # "key") => k = im[j].key

\* What a certificate is known by.
Name(c) == <<c.id, c.subject, c.issuer>>

\* As long as no call has failed, the certificates in use are exactly those in
\* front of image_offset of the image that is worked on, and so is the key if that
\* image has one: the pass over the recovery image leaves nothing behind that
\* could stand in for what the volume's image lacks or be in its way (crypto_free),
\* save encrypted_key, which is in use until the first key of the volume's image.
TableIsOfThisImage ==
  pass \in {"check", "load"} /\ ret \in {"NO_ERR", "LOAD_FINISH"} =>
    LET front == 1..(offset - 1)
    IN  /\ root # "" => \E i \in front : Image[i].type = "root"
        /\ \A i \in front : Image[i].type = "root" => root = Image[i].subject
        /\ {Name(certs[i]) : i \in DOMAIN certs}
             = {Name(Image[i]) : i \in {j \in front : IsCa(Image[j])}}
        /\ {Name(endCert[i]) : i \in DOMAIN endCert}
             = {Name(Image[i]) : i \in {j \in front : IsEnd(Image[j])}}
        /\ LastKey(Image, offset, key)

\* c[i] is the number of CA certificates in front of object i.
CountsCas(im, c) ==
  /\ c[1] = 0
  /\ \A i \in 2..Len(im) : c[i] = c[i - 1] + (IF IsCa(im[i - 1]) THEN 1 ELSE 0)

\* The image is put together the way the configurations of tl-sbimg do it: what
\* an object needs is in front of it, there are no more certificates than the loader
\* has room for, and the last object does not return.
WellFormed(im) ==
  /\ im[Len(im)].type = "no_return"
  /\ \E c \in [1..Len(im) -> 0..MaxCa] :
       CountsCas(im, c) /\ \A i \in DOMAIN im : im[i].type = "non_root" => c[i] < MaxCa
  /\ \A i \in DOMAIN im :
       LET o == im[i]
           before == 1..(i - 1)
           cas == {j \in before : IsCa(im[j])}
       IN  /\ o.type = "root" => o.subject = o.issuer /\ o.subject # "" /\ cas = {}
           /\ o.type = "non_root" =>
                /\ \E j \in before : im[j].type = "root"
                /\ \E j \in before : (im[j].type = "root" \/ IsCa(im[j])) /\ im[j].subject = o.issuer
                /\ o.subject # o.issuer /\ \A j \in before : ~IsEnd(im[j])
                /\ \A j \in cas : im[j].id # o.id
           /\ o.type = "key" =>
                /\ o.signed_obj /\ \E j \in before : IsEnd(im[j])
                /\ \E j \in before : im[j].type = "non_root" /\ im[j].id = o.sign_cert_id
           /\ o.type \in Payload =>
                /\ o.fits /\ (o.type # "no_exec" => o.entry)
                /\ o.sign_of_encrypted => o.signed_obj /\ o.encrypted
                /\ o.signed_obj => \E j \in before : IsEnd(im[j]) /\ im[j].id = o.sign_cert_id
                /\ o.encrypted => \E j \in before :
                     /\ im[j].type = "key" /\ im[j].key = o.key
                     /\ \A k \in (j + 1)..(i - 1) : im[k].type # "key"

\* The volume's image is sound and made for this board.
Suitable(s) ==
  /\ WellFormed(Images[flash[s]]) /\ \A i \in 1..MaxLen : bad[s][i] = "none"
  /\ \A i \in DOMAIN Images[flash[s]] :
       LET o == Images[flash[s]][i]
       IN  /\ o.type = "root" => otp.rotpk = o.subject
           /\ o.type \in Payload =>
                (otp.force_sign => o.signed_obj) /\ (otp.force_encrypt => o.encrypted)

\* Loading a sound image fails only if a read or an allocation fails, whatever
\* the recovery image looks like and the check of it left behind.
SoundImageStarts == pass = "panic" /\ Suitable(Selected) => faults > 0
=============================================================================
