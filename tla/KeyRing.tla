------------------------------- MODULE KeyRing --------------------------------
(***************************************************************************)
(* MemoryKeyRing (secrets/keyring.go) with the Cipher that uses it         *)
(* (secrets/envelope.go): operators rotate and revoke keys while Encrypt,  *)
(* which reads the active key in one critical section and seals after it,  *)
(* is under way, and envelopes written long ago are decrypted.             *)
(*                                                                         *)
(* Key material stands for algorithm and bytes together; Usable are the    *)
(* ones newAEAD accepts (AES-256-GCM with 32 bytes).  AES-GCM is modelled  *)
(* by what it promises: an envelope opens with the material and under the  *)
(* associated data it was sealed with, and with no other.                  *)
(***************************************************************************)
EXTENDS Naturals, FiniteSets

CONSTANTS
  KeyIds,      (* identifiers of keys                                       *)
  Materials,   (* key material, not empty                                   *)
  Usable,      (* the material newAEAD accepts                              *)
  Erased,      (* the nil material of a revoked or missing key              *)
  Bindings,    (* purpose, workspace and secret key: the associated data    *)
  Encryptors   (* goroutines inside Encrypt                                 *)

ASSUME KeyRingAssumption ==
  /\ Usable \subseteq Materials
  /\ Erased \notin Materials

VARIABLES
  activeID,
  keys,        (* status and material of every identifier                   *)
  inHand,      (* the copy of the active key each Encrypt works with, if any *)
  envelopes,   (* every envelope that was returned                          *)
  reused       (* history: identifiers Rotate was given although they exist *)

ringVars == <<activeID, keys, inHand, envelopes, reused>>

Statuses == {"absent", "active", "decrypt-only", "revoked"}
RingKey  == [status : Statuses, material : Materials \cup {Erased}]
Copy     == [id : KeyIds, material : Materials \cup {Erased}]
Envelope == [id : KeyIds, material : Usable, binding : Bindings]

NoKey    == [status |-> "absent", material |-> Erased]

KeyRingTypeOK ==
  /\ activeID \in KeyIds
  /\ keys \in [KeyIds -> RingKey]
  /\ inHand \in [Encryptors -> SUBSET Copy]
  /\ envelopes \subseteq Envelope
  /\ reused \subseteq KeyIds
-----------------------------------------------------------------------------
\* NewMemoryKeyRing: an active key and decrypt-only keys under other ids.
KeyRingInit ==
  /\ activeID \in KeyIds
  /\ \E old \in SUBSET (KeyIds \ {activeID}), m \in [KeyIds -> Materials] :
       keys = [id \in KeyIds |->
                 IF id = activeID THEN [status |-> "active", material |-> m[id]]
                 ELSE IF id \in old
                      THEN [status |-> "decrypt-only", material |-> m[id]]
                      ELSE NoKey]
  /\ inHand = [e \in Encryptors |-> {}]
  /\ envelopes = {}
  /\ reused = {}

\* A bug to tell apart: the previous key is dropped instead of kept for
\* decryption.
RotateAway(id, m) ==
  /\ keys' = [keys EXCEPT ![activeID] = NoKey,
                          ![id] = [status |-> "active", material |-> m]]
  /\ activeID' = id
  /\ reused' = IF keys[id].status = "absent" THEN reused ELSE reused \cup {id}
  /\ UNCHANGED <<inHand, envelopes>>

\* Rotate: the active key becomes decrypt-only, then the next one is put
\* under its id, whatever was there, and becomes active.
Rotate(id, m) ==
  /\ keys' = [keys EXCEPT ![activeID].status = "decrypt-only",
                          ![id] = [status |-> "active", material |-> m]]
  /\ activeID' = id
  /\ reused' = IF keys[id].status = "absent" THEN reused ELSE reused \cup {id}
  /\ UNCHANGED <<inHand, envelopes>>

\* Revoke refuses the active key and unknown ids, and erases the material.
Revoke(id) ==
  /\ id # activeID
  /\ keys[id].status # "absent"
  /\ keys' = [keys EXCEPT ![id] = [status |-> "revoked", material |-> Erased]]
  /\ UNCHANGED <<activeID, inHand, envelopes, reused>>

\* Active, called by Encrypt: a copy of the active key.
Active(e) ==
  /\ inHand[e] = {}
  /\ keys[activeID].status = "active"
  /\ inHand' = [inHand EXCEPT ![e] =
                  {[id |-> activeID, material |-> keys[activeID].material]}]
  /\ UNCHANGED <<activeID, keys, envelopes, reused>>

\* The rest of Encrypt: newAEAD, then the envelope names the key it used.
Seal(e, b) ==
  /\ \E key \in inHand[e] :
       envelopes' = envelopes \cup
         (IF key.material \in Usable
          THEN {[id |-> key.id, material |-> key.material, binding |-> b]}
          ELSE {})
  /\ inHand' = [inHand EXCEPT ![e] = {}]
  /\ UNCHANGED <<activeID, keys, reused>>

\* Decrypt: ByID, newAEAD and Open under the caller's associated data.
Decrypt(v, b) ==
  LET key == keys[v.id] IN
  IF key.status = "absent" THEN "secret not found"
  ELSE IF key.status = "revoked" THEN "key revoked"
  ELSE IF key.material = v.material /\ b = v.binding THEN "plaintext"
  ELSE "decryption failed"

KeyRingNext ==
  \/ \E id \in KeyIds, m \in Materials : Rotate(id, m)
  \/ \E id \in KeyIds : Revoke(id)
  \/ \E e \in Encryptors : Active(e) \/ \E b \in Bindings : Seal(e, b)

KeyRingSpec == KeyRingInit /\ [][KeyRingNext]_ringVars
-----------------------------------------------------------------------------
\* Exactly one key is active, the one Active looks up: Active never answers
\* ErrProviderUnavailable, whatever was rotated and revoked.
OneActiveKey == {id \in KeyIds : keys[id].status = "active"} = {activeID}

\* As long as identifiers are not used twice, an envelope opens for its
\* binding until its key is revoked, also one sealed with a key that was
\* replaced while Encrypt was under way; then it fails as revoked, and for
\* no other binding it ever opens.
SealedStaysReadable ==
  \A v \in envelopes : v.id \notin reused =>
    \A b \in Bindings :
      Decrypt(v, b) = IF keys[v.id].status = "revoked" THEN "key revoked"
                      ELSE IF b = v.binding THEN "plaintext"
                           ELSE "decryption failed"
=============================================================================
