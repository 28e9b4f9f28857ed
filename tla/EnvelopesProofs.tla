-------------------------- MODULE EnvelopesProofs --------------------------
(***************************************************************************)
(* What Envelopes promises, for any number of rows, keys, versions and     *)
(* secrets.  The invariant behind it: every envelope is what encrypt would *)
(* make of the row's secret under the key of the version it names, however *)
(* often it was rotated since.                                             *)
(***************************************************************************)
EXTENDS Envelopes, TLAPS

\* One plaintext, one row, one version and its key, one data key.
WellSealed ==
  \A row \in Stored :
    /\ secret[row] \in Plaintexts
    /\ \E v \in Held, dek \in 1..MaxSeals :
         store[row] = Encrypt(secret[row], row, ring[v], Kid[row], v, dek)

\* A version names one key, and a key one version.
RingInjective ==
  /\ ring \in [Versions -> Keys \cup {None}]
  /\ current \in Held
  /\ \A v, w \in Held : ring[v] = ring[w] => v = w

Counted == seals \in 0..MaxSeals

RowTypes ==
  /\ store = [row \in Rows |-> store[row]]
  /\ secret \in [Rows -> Plaintexts \cup {None}]

IInv == WellSealed /\ RingInjective /\ Counted /\ RowTypes
-----------------------------------------------------------------------------
(* encrypt, decrypt and rotateKEK, as functions.                           *)

LEMMA DecryptEncrypt ==
  ASSUME NEW plaintext, NEW aad, NEW kek, NEW kid, NEW v, NEW dek \in Nat,
         NEW otherAad, NEW otherKek
  PROVE  Decrypt(Encrypt(plaintext, aad, kek, kid, v, dek), otherAad, otherKek) =
           IF otherAad = aad /\ otherKek = kek THEN plaintext ELSE Failed
  BY EnvelopeConstants DEF Decrypt, Encrypt, Sealed, Opened, BuildWrapAad

\* A rotated envelope is what encrypt would have made under the new key.
LEMMA RewrapEncrypt ==
  ASSUME NEW plaintext, NEW aad, NEW kek, NEW kid, NEW v, NEW dek, NEW newKek, NEW w
  PROVE  Rewrap(Encrypt(plaintext, aad, kek, kid, v, dek), aad, dek, newKek, w) =
           Encrypt(plaintext, aad, newKek, kid, w, dek)
  BY DEF Rewrap, Encrypt

\* One envelope of a batch that is not refused: left alone, or wrapped anew,
\* and then it was opened with its own associated data.
LEMMA RotatedEncrypt ==
  ASSUME NEW plaintext, NEW aad, NEW kek, NEW kid, NEW v, NEW dek \in Nat,
         NEW tried, NEW oldKek, NEW newKek, NEW w,
         Rotated(Encrypt(plaintext, aad, kek, kid, v, dek), tried, oldKek, newKek, w) # Failed
  PROVE  \/ /\ v = w
            /\ Rotated(Encrypt(plaintext, aad, kek, kid, v, dek), tried, oldKek, newKek, w) =
                 Encrypt(plaintext, aad, kek, kid, v, dek)
         \/ Rotated(Encrypt(plaintext, aad, kek, kid, v, dek), tried, oldKek, newKek, w) =
              Encrypt(plaintext, aad, newKek, kid, w, dek)
<1> DEFINE envelope == Encrypt(plaintext, aad, kek, kid, v, dek)
<1>1. envelope.kekVersion = v /\ envelope.kid = kid
  BY DEF Encrypt
<1>2. CASE v = w
  BY <1>1, <1>2 DEF Rotated, NeedsRotation
<1>3. CASE v # w
  <2>1. Opened(oldKek, BuildWrapAad(kid, v, tried), envelope.wrappedDEK) # Failed
    BY <1>1, <1>3 DEF Rotated, NeedsRotation
  <2>2. tried = aad
    BY <2>1 DEF Opened, Encrypt, Sealed, BuildWrapAad
  <2>3. Opened(oldKek, BuildWrapAad(kid, v, tried), envelope.wrappedDEK) = dek
    BY <2>1 DEF Opened, Encrypt, Sealed
  <2>4. Rotated(envelope, tried, oldKek, newKek, w) = Rewrap(envelope, aad, dek, newKek, w)
    BY <1>1, <1>3, <2>1, <2>2, <2>3 DEF Rotated, NeedsRotation
  <2> QED BY <2>4, RewrapEncrypt
<1> QED BY <1>2, <1>3
-----------------------------------------------------------------------------
(* The invariant.                                                          *)

LEMMA InitSealed == Init => IInv
<1> SUFFICES ASSUME Init PROVE IInv
  OBVIOUS
<1> USE EnvelopeConstants
<1>1. WellSealed
  BY DEF Init, WellSealed, Stored
<1>2. RingInjective
  <2>1. PICK kek \in Keys : ring = [v \in Versions |-> IF v = 1 THEN kek ELSE None]
    BY DEF Init
  <2>2. Held = {1}
    BY <2>1 DEF Held, Versions
  <2> QED BY <2>1, <2>2 DEF Init, RingInjective
<1>3. Counted /\ RowTypes
  BY DEF Init, Counted, RowTypes
<1> QED BY <1>1, <1>2, <1>3 DEF IInv

\* Keys are only added to the ring, so what was sealed under one stays so.
LEMMA RingGrows ==
  ASSUME IInv, NewKey
  PROVE  /\ Held \subseteq Held'
         /\ \A v \in Held : ring'[v] = ring[v]
         /\ RingInjective'
  BY EnvelopeConstants DEF IInv, RingInjective, NewKey, Held, Versions

LEMMA SealStep ==
  ASSUME IInv, NEW row \in Rows, Seal(row)
  PROVE  IInv'
<1> USE EnvelopeConstants
<1>1. Counted' /\ seals + 1 \in 1..MaxSeals
  BY DEF Seal, IInv, Counted
<1>2. RingInjective'
  BY DEF Seal, IInv, RingInjective, Held
<1>3. PICK plaintext \in Plaintexts :
        /\ store' = [store EXCEPT ![row] =
             Encrypt(plaintext, row, ring[current], Kid[row], current, seals + 1)]
        /\ secret' = [secret EXCEPT ![row] = plaintext]
  BY DEF Seal
<1>4. RowTypes'
  BY <1>3 DEF IInv, RowTypes
<1>5. ASSUME NEW other \in Stored'
      PROVE  /\ secret'[other] \in Plaintexts
             /\ \E v \in Held', dek \in 1..MaxSeals :
                  store'[other] = Encrypt(secret'[other], other, ring'[v], Kid[other], v, dek)
  <2> other \in Rows
    BY DEF Stored
  <2>1. UNCHANGED <<ring, current>> /\ Held' = Held
    BY DEF Seal, Held
  <2>2. CASE other = row
    <3>1. store'[row] = Encrypt(plaintext, row, ring[current], Kid[row], current, seals + 1)
      BY <1>3 DEF IInv, RowTypes
    <3>2. secret'[row] = plaintext
      BY <1>3 DEF IInv, RowTypes
    <3>3. current \in Held
      BY DEF IInv, RingInjective
    <3> QED BY <1>1, <2>1, <2>2, <3>1, <3>2, <3>3
  <2>3. CASE other # row
    <3>1. store'[other] = store[other] /\ secret'[other] = secret[other]
      BY <1>3, <2>3 DEF IInv, RowTypes
    <3>2. other \in Stored
      BY <3>1 DEF Stored
    <3> QED BY <2>1, <3>1, <3>2 DEF IInv, WellSealed
  <2> QED BY <2>2, <2>3
<1>6. WellSealed'
  BY <1>5 DEF WellSealed
<1> QED BY <1>1, <1>2, <1>4, <1>6 DEF IInv

LEMMA NewKeyStep == ASSUME IInv, NewKey PROVE IInv'
<1>1. UNCHANGED <<store, secret, seals>> /\ Stored' = Stored
  BY DEF NewKey, Stored
<1>2. WellSealed'
  BY <1>1, RingGrows DEF IInv, WellSealed
<1> QED BY <1>1, <1>2, RingGrows DEF IInv, Counted, RowTypes

LEMMA SealUnderStep == ASSUME IInv, NEW v \in Versions, SealUnder(v) PROVE IInv'
  BY DEF SealUnder, IInv, WellSealed, RingInjective, Counted, RowTypes, Held, Stored

LEMMA RotateStep == ASSUME IInv, Rotate PROVE IInv'
<1> USE EnvelopeConstants
<1>1. PICK batch \in (SUBSET Stored) \ {{}}, old \in Held, new \in Held, resolves \in BOOLEAN :
        store' = IF RotateKEK(batch, ring[old], ring[new], new, resolves) = Failed THEN store
                 ELSE [row \in Rows |->
                         IF row \in batch
                         THEN RotateKEK(batch, ring[old], ring[new], new, resolves)[row]
                         ELSE store[row]]
  BY DEF Rotate
<1>2. UNCHANGED <<secret, ring, current, seals>> /\ Held' = Held
  BY DEF Rotate, Held
<1>3. RingInjective' /\ Counted' /\ RowTypes'
  BY <1>1, <1>2 DEF IInv, RingInjective, Counted, RowTypes
<1> DEFINE rotated(row) ==
      Rotated(store[row], AadFor(row, resolves), ring[old], ring[new], new)
<1>4. ASSUME NEW row \in Stored'
      PROVE  /\ secret[row] \in Plaintexts
             /\ \E v \in Held, dek \in 1..MaxSeals :
                  store'[row] = Encrypt(secret[row], row, ring[v], Kid[row], v, dek)
  <2> row \in Rows
    BY DEF Stored
  <2>1. \/ store'[row] = store[row]
        \/ row \in batch /\ store'[row] = rotated(row) /\ rotated(row) # Failed
    BY <1>1 DEF RotateKEK
  <2>2. row \in Stored
    BY <1>1, <2>1 DEF Stored
  <2>3. secret[row] \in Plaintexts
    BY <2>2 DEF IInv, WellSealed
  <2>4. PICK v \in Held, dek \in 1..MaxSeals :
          store[row] = Encrypt(secret[row], row, ring[v], Kid[row], v, dek)
    BY <2>2 DEF IInv, WellSealed
  <2>5. \/ store'[row] = store[row]
        \/ store'[row] = Encrypt(secret[row], row, ring[new], Kid[row], new, dek)
    BY <2>1, <2>4, RotatedEncrypt
  <2> QED BY <2>3, <2>4, <2>5
<1>5. WellSealed'
  BY <1>2, <1>4 DEF WellSealed
<1> QED BY <1>3, <1>5 DEF IInv

LEMMA Step == IInv /\ [Next]_vars => IInv'
<1> SUFFICES ASSUME IInv, [Next]_vars PROVE IInv'
  OBVIOUS
<1>1. CASE Next
  BY <1>1, SealStep, NewKeyStep, SealUnderStep, RotateStep DEF Next
<1>2. CASE UNCHANGED vars
  BY <1>2 DEF vars, IInv, WellSealed, RingInjective, Counted, RowTypes, Held, Stored
<1> QED BY <1>1, <1>2

LEMMA Invariance == Spec => []IInv
  BY InitSealed, Step, PTL DEF Spec
-----------------------------------------------------------------------------
(* The theorems.                                                           *)

\* Every row keeps an envelope of the form envelope.ts gives it, under a version held.
THEOREM EnvelopesTyped == Spec => []TypeOK
<1>1. ASSUME IInv PROVE TypeOK
  <2>1. ASSUME NEW row \in Stored PROVE store[row] \in Envelope
    <3>1. row \in Rows /\ secret[row] \in Plaintexts
      BY <1>1 DEF IInv, WellSealed, Stored
    <3>2. PICK v \in Held, dek \in 1..MaxSeals :
            store[row] = Encrypt(secret[row], row, ring[v], Kid[row], v, dek)
      BY <1>1 DEF IInv, WellSealed
    <3>3. v \in Versions /\ ring[v] \in Keys
      BY <1>1 DEF IInv, RingInjective, Held
    <3>4. BuildWrapAad(Kid[row], v, row) \in WrapAad
      BY <3>1, <3>3 DEF BuildWrapAad, WrapAad, Aads
    <3> QED BY <3>1, <3>2, <3>3, <3>4 DEF Encrypt, Sealed, Envelope, Aads
  <2>2. store \in [Rows -> Envelope \cup {None}]
    BY <1>1, <2>1 DEF IInv, RowTypes, Stored
  <2> QED BY <1>1, <2>2 DEF IInv, TypeOK, RowTypes, RingInjective, Counted
<1> QED BY <1>1, Invariance, PTL

\* envelope.ts, rotation.ts: whatever was rotated, by whichever key and in whichever
\* batch, a row opens to its secret with its key and its associated data, and only so.
THEOREM EnvelopesOpen == Spec => []OpensExactly
<1>1. ASSUME IInv PROVE OpensExactly
  <2> SUFFICES ASSUME NEW row \in Stored, NEW aad \in Aads, NEW kek \in Keys
               PROVE  Decrypt(store[row], aad, kek) =
                        IF aad = row /\ kek = ring[store[row].kekVersion]
                        THEN secret[row] ELSE Failed
    BY DEF OpensExactly
  <2>1. PICK v \in Held, dek \in 1..MaxSeals :
          store[row] = Encrypt(secret[row], row, ring[v], Kid[row], v, dek)
    BY <1>1 DEF IInv, WellSealed
  <2>2. store[row].kekVersion = v
    BY <2>1 DEF Encrypt
  <2> QED BY <2>1, <2>2, DecryptEncrypt
<1> QED BY <1>1, Invariance, PTL

\* rotation.ts: needsRotation answers no for exactly those versions whose key opens
\* the envelope, so that it may be asked before a key is given up.
THEOREM RotationKnown == Spec => []RotationExact
<1>1. ASSUME IInv PROVE RotationExact
  <2> SUFFICES ASSUME NEW row \in Stored, NEW v \in Held
               PROVE  NeedsRotation(store[row], v)
                        <=> Decrypt(store[row], row, ring[v]) = Failed
    BY DEF RotationExact
  <2>1. PICK w \in Held, dek \in 1..MaxSeals :
          store[row] = Encrypt(secret[row], row, ring[w], Kid[row], w, dek)
    BY <1>1 DEF IInv, WellSealed
  <2>2. store[row].kekVersion = w
    BY <2>1 DEF Encrypt
  <2>3. secret[row] # Failed
    BY <1>1, EnvelopeConstants DEF IInv, WellSealed
  <2>4. v = w <=> ring[v] = ring[w]
    BY <1>1 DEF IInv, RingInjective
  <2>5. Decrypt(store[row], row, ring[v]) = IF ring[v] = ring[w] THEN secret[row] ELSE Failed
    BY <2>1, DecryptEncrypt
  <2> QED BY <2>2, <2>3, <2>4, <2>5 DEF NeedsRotation
<1> QED BY <1>1, Invariance, PTL
=============================================================================
