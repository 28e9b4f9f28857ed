----------------------------- MODULE Envelopes -----------------------------
(***************************************************************************)
(* Envelope encryption at rest (packages/crypto): every secret has a data  *)
(* key of its own, wrapped under a key-encryption key whose version stands *)
(* in the envelope, and rotateKEK wraps the data keys of a batch again.    *)
(*                                                                         *)
(* Encryption is symbolic: what is sealed under a key and associated data  *)
(* opens under exactly those.  Rows are the places a secret is kept in,    *)
(* the payload of a switch or the TOTP column (totp-store.ts); a row's     *)
(* associated data is its tenant and switch id.                            *)
(***************************************************************************)
EXTENDS Naturals, FiniteSets

CONSTANTS
  Rows, Kid,      \* where envelopes are kept, and the kid each row uses
  DefaultAad,     \* what rotateKEK assumes when the caller resolves nothing
  Plaintexts, Keys,
  MaxVersion,     \* bound: versions of the KEK
  MaxSeals,       \* bound: secrets sealed
  None, Failed    \* no envelope; a call that throws

ASSUME EnvelopeConstants ==
  /\ MaxVersion \in Nat \ {0} /\ MaxSeals \in Nat
  /\ Kid \in [Rows -> {Kid[row] : row \in Rows}]
  /\ None \notin Keys /\ Failed \notin Plaintexts \cup Nat

VARIABLES
  store,          \* row -> envelope, or None
  secret,         \* history: row -> what was sealed there last
  ring,           \* the operator's keys: version -> KEK, or None
  current,        \* version secrets are sealed under
  seals           \* data keys drawn so far; randomBytes never repeats one

vars == <<store, secret, ring, current, seals>>

Versions == 1..MaxVersion
Aads == Rows \cup {DefaultAad}
WrapAad == [kid : {Kid[row] : row \in Rows}, kekVersion : Versions, of : Aads]
Envelope ==
  [version : {1}, kid : {Kid[row] : row \in Rows}, kekVersion : Versions,
   wrappedDEK : [key : Keys, aad : WrapAad, body : 1..MaxSeals],
   payload : [key : 1..MaxSeals, aad : Aads, body : Plaintexts]]

\* xchacha20poly1305(key, nonce, aad): a tag that does not fit throws.
Sealed(key, aad, body) == [key |-> key, aad |-> aad, body |-> body]
Opened(key, aad, sealed) ==
  IF sealed.key = key /\ sealed.aad = aad THEN sealed.body ELSE Failed

BuildWrapAad(kid, kekVersion, aad) == [kid |-> kid, kekVersion |-> kekVersion, of |-> aad]
-----------------------------------------------------------------------------
(* envelope.ts                                                             *)

Encrypt(plaintext, aad, kek, kid, kekVersion, dek) ==
  [version |-> 1, kid |-> kid, kekVersion |-> kekVersion,
   wrappedDEK |-> Sealed(kek, BuildWrapAad(kid, kekVersion, aad), dek),
   payload |-> Sealed(dek, aad, plaintext)]

Decrypt(envelope, aad, kek) ==
  LET dek == Opened(kek, BuildWrapAad(envelope.kid, envelope.kekVersion, aad),
                    envelope.wrappedDEK)
  IN  IF envelope.version # 1 \/ dek = Failed THEN Failed
      ELSE Opened(dek, aad, envelope.payload)
-----------------------------------------------------------------------------
(* rotation.ts                                                             *)

\* Fault: a version below the current one is all that needs it.
NeedsRotationBelow(envelope, currentVersion) == envelope.kekVersion < currentVersion

NeedsRotation(envelope, currentVersion) == envelope.kekVersion # currentVersion

\* Fault: the new wrapping still speaks of the old version.
RewrapStale(envelope, aad, dek, newKek, newVersion) ==
  [version |-> envelope.version, kid |-> envelope.kid, kekVersion |-> newVersion,
   wrappedDEK |-> Sealed(newKek, BuildWrapAad(envelope.kid, envelope.kekVersion, aad), dek),
   payload |-> envelope.payload]

Rewrap(envelope, aad, dek, newKek, newVersion) ==
  [version |-> envelope.version, kid |-> envelope.kid, kekVersion |-> newVersion,
   wrappedDEK |-> Sealed(newKek, BuildWrapAad(envelope.kid, newVersion, aad), dek),
   payload |-> envelope.payload]

\* One envelope of a batch: unchanged when it has the new version already.
Rotated(envelope, aad, oldKek, newKek, newVersion) ==
  LET dek == Opened(oldKek, BuildWrapAad(envelope.kid, envelope.kekVersion, aad),
                    envelope.wrappedDEK)
  IN  IF ~NeedsRotation(envelope, newVersion) THEN envelope
      ELSE IF dek = Failed THEN Failed
      ELSE Rewrap(envelope, aad, dek, newKek, newVersion)

\* The caller's resolver knows each row; without one all are the default's.
AadFor(row, resolves) == IF resolves THEN row ELSE DefaultAad

\* The first envelope that does not open throws, and the batch with it.
RotateKEK(batch, oldKek, newKek, newVersion, resolves) ==
  LET result == [row \in batch |->
        Rotated(store[row], AadFor(row, resolves), oldKek, newKek, newVersion)]
  IN  IF \E row \in batch : result[row] = Failed THEN Failed ELSE result
-----------------------------------------------------------------------------
Init ==
  /\ store = [row \in Rows |-> None]
  /\ secret = [row \in Rows |-> None]
  /\ \E kek \in Keys : ring = [v \in Versions |-> IF v = 1 THEN kek ELSE None]
  /\ current = 1
  /\ seals = 0

Held == {v \in Versions : ring[v] # None}
Stored == {row \in Rows : store[row] # None}

\* The payload route and encryptTotpSecret replace what was there.
Seal(row) ==
  /\ seals < MaxSeals
  /\ seals' = seals + 1
  /\ \E plaintext \in Plaintexts :
       /\ store' = [store EXCEPT ![row] =
            Encrypt(plaintext, row, ring[current], Kid[row], current, seals + 1)]
       /\ secret' = [secret EXCEPT ![row] = plaintext]
  /\ UNCHANGED <<ring, current>>

\* The operator makes a key for another version; a version names one key.
NewKey ==
  /\ \E v \in Versions \ Held, kek \in Keys :
       /\ \A w \in Held : ring[w] # kek
       /\ ring' = [ring EXCEPT ![v] = kek]
  /\ UNCHANGED <<store, secret, current, seals>>

\* From now on secrets are sealed under v: forth, or back again.
SealUnder(v) ==
  /\ v \in Held \ {current}
  /\ current' = v
  /\ UNCHANGED <<store, secret, ring, seals>>

\* Any batch, with the right old key or another, to any version that is held.
Rotate ==
  /\ \E batch \in (SUBSET Stored) \ {{}}, old \in Held, new \in Held, resolves \in BOOLEAN :
       LET result == RotateKEK(batch, ring[old], ring[new], new, resolves)
       IN  store' = IF result = Failed THEN store
                    ELSE [row \in Rows |-> IF row \in batch THEN result[row] ELSE store[row]]
  /\ UNCHANGED <<secret, ring, current, seals>>

Next == (\E row \in Rows : Seal(row)) \/ NewKey \/ (\E v \in Versions : SealUnder(v)) \/ Rotate

Spec == Init /\ [][Next]_vars
-----------------------------------------------------------------------------
(* Properties.                                                             *)

TypeOK ==
  /\ store \in [Rows -> Envelope \cup {None}]
  /\ secret \in [Rows -> Plaintexts \cup {None}]
  /\ ring \in [Versions -> Keys \cup {None}]
  /\ current \in Held
  /\ seals \in 0..MaxSeals

\* After any number of rotations in any order, complete or failed, right or
\* wrong, each envelope opens to what was sealed in its row, with the key of
\* the version it names, and with no other key and in no other row.
OpensExactly ==
  \A row \in Stored, aad \in Aads, kek \in Keys :
    Decrypt(store[row], aad, kek) =
      IF aad = row /\ kek = ring[store[row].kekVersion] THEN secret[row] ELSE Failed

\* needsRotation is a safe test for giving up old keys: an envelope needs no
\* rotation to a version exactly when that version's key opens it.
RotationExact ==
  \A row \in Stored, v \in Held :
    NeedsRotation(store[row], v) <=> Decrypt(store[row], row, ring[v]) = Failed
=============================================================================
