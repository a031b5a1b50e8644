---------------------------- MODULE MCSbExecutor ----------------------------
(***************************************************************************)
(* Images as the configurations of tl-sbimg build them (sbl-none.cfg.in,   *)
(* sbl-sign.cfg.in, sbl-enc.cfg.in, with one of the three parts), and some *)
(* that are not made for this loader or this board.                        *)
(***************************************************************************)
EXTENDS SbExecutor

Object == [type |-> "other", id |-> 0, subject |-> "", issuer |-> "", ca |-> FALSE,
           sign_cert_id |-> 0, signed_obj |-> FALSE, encrypted |-> FALSE,
           sign_of_encrypted |-> FALSE, checksum |-> FALSE, key |-> 0,
           dtb |-> FALSE, fits |-> TRUE, entry |-> TRUE,
           skip_header_hash |-> FALSE]

RootCert == [Object EXCEPT !.type = "root", !.id = 1, !.subject = "root", !.issuer = "root"]
CaCert == [Object EXCEPT !.type = "non_root", !.id = 2, !.subject = "ca",
                         !.issuer = "root", !.ca = TRUE]
CaCert2 == [CaCert EXCEPT !.id = 4, !.subject = "ca2", !.issuer = "ca"]
CaCert3 == [CaCert EXCEPT !.id = 5, !.subject = "ca3", !.issuer = "ca2"]
FwCert == [Object EXCEPT !.type = "non_root", !.id = 3, !.subject = "fw", !.issuer = "ca"]
EncKey == [Object EXCEPT !.type = "key", !.key = 2, !.signed_obj = TRUE, !.sign_cert_id = 3]

Dtb == [Object EXCEPT !.type = "no_exec", !.dtb = TRUE, !.checksum = TRUE]
S3 == [Object EXCEPT !.type = "no_return", !.checksum = TRUE]
WithReturn == [Object EXCEPT !.type = "with_return", !.checksum = TRUE]

Sign(o) == [o EXCEPT !.signed_obj = TRUE, !.sign_cert_id = 3, !.checksum = FALSE]
Encrypt(o) == [o EXCEPT !.encrypted = TRUE, !.key = 2]
Unhashed(o) == [o EXCEPT !.skip_header_hash = TRUE]
OfEncrypted(o) == [o EXCEPT !.sign_of_encrypted = TRUE]

ImagesMC ==
  [none      |-> <<Dtb, S3>>,
   signed    |-> <<RootCert, CaCert, FwCert, Sign(Dtb), Sign(S3)>>,
   encrypted |-> <<RootCert, CaCert, FwCert, EncKey, Encrypt(Sign(Dtb)),
                   OfEncrypted(Encrypt(Sign(S3)))>>,
   no_end    |-> <<RootCert, CaCert, EncKey, Encrypt(Dtb), S3>>,
   long      |-> <<RootCert, CaCert, CaCert2, CaCert3, FwCert, Sign(S3)>>,
   two_roots |-> <<RootCert, CaCert, RootCert, FwCert, Sign(S3)>>,
   twice_ca  |-> <<RootCert, CaCert, CaCert, FwCert, Sign(S3)>>,
   two_ends  |-> <<RootCert, CaCert, FwCert, CaCert2, Sign(S3)>>,
   misplaced |-> <<WithReturn, Object, [S3 EXCEPT !.fits = FALSE]>>,
   no_entry  |-> <<[WithReturn EXCEPT !.entry = FALSE], S3>>,
   no_start  |-> <<Dtb, [S3 EXCEPT !.entry = FALSE]>>,
   unhashed  |-> <<Unhashed(RootCert), Unhashed(CaCert), FwCert, Unhashed(Sign(Dtb)),
                   Unhashed(Sign(S3))>>,
   no_root   |-> <<CaCert, FwCert, Sign(S3)>>]

\* The images the three configurations give, and one with headers that are not
\* to be checked.
BuiltMC == {"none", "signed", "encrypted", "unhashed"}

\* Every image once as the recovery and once as the volume's image.
PairsMC == {[R |-> "signed", A |-> n] : n \in DOMAIN ImagesMC}
             \cup {[R |-> n, A |-> "encrypted"] : n \in DOMAIN ImagesMC}

BoardsMC == {[force_sign |-> FALSE, force_encrypt |-> FALSE, rotpk |-> "root"],
             [force_sign |-> TRUE, force_encrypt |-> FALSE, rotpk |-> "root"],
             [force_sign |-> TRUE, force_encrypt |-> TRUE, rotpk |-> "root"],
             [force_sign |-> FALSE, force_encrypt |-> FALSE, rotpk |-> "other"]}

\* One damaged object in flash.
DamageAt(s, i, k) == [t \in Slot |-> [j \in 1..MaxLen |-> IF t = s /\ j = i THEN k ELSE "none"]]

Undamaged == {[flash |-> p, bad |-> DamageAt("A", 1, "none"), otp |-> b] :
                p \in PairsMC, b \in BoardsMC}

StartsMC ==
  Undamaged
  \cup {[flash |-> [R |-> r, A |-> a], bad |-> DamageAt(s, i, k), otp |-> b] :
          r \in BuiltMC, a \in BuiltMC, s \in Slot, i \in 1..MaxLen,
          k \in {"id", "hash", "body"}, b \in BoardsMC}

ASSUME BuiltAreWellFormed == BuiltMC = {n \in Names : WellFormed(Images[n])}
=============================================================================
