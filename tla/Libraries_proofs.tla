--------------------------- MODULE Libraries_proofs ---------------------------
(***************************************************************************)
(* Proofs about the packages that keep little or no state: KeyRing, for    *)
(* any identifiers, material, bindings and number of goroutines inside     *)
(* Encrypt; SafeClient, for any names, addresses, policy, resolver and     *)
(* redirects; Pagination, for any list, size and walk; Scheduling, for any *)
(* candidates, quotas, limit and retry policy; Decimal, for any operands   *)
(* and configuration; and Expression, for any nodes, types and data.       *)
(* Where a fact about data takes an induction, it is shown by the least    *)
(* counterexample (LeastNumber).                                           *)
(***************************************************************************)
EXTENDS KeyRing, SafeClient, Pagination, Scheduling, Expression, FiniteSetTheorems,
        FunctionTheorems, WellFoundedInduction, TLAPS

\* The ring still knows key k as it was copied, or has revoked it.
Kept(k) ==
  \/ keys[k.id].status = "revoked"
  \/ /\ keys[k.id].status \in {"active", "decrypt-only"}
     /\ keys[k.id].material = k.material

\* What a goroutine inside Encrypt holds may still become an envelope, so
\* copies are kept under the same condition as envelopes.
CopiesKept ==
  \A e \in Encryptors : \A k \in inHand[e] : k.id \notin reused => Kept(k)

EnvelopesKept ==
  \A v \in envelopes : v.id \notin reused => Kept(v)

RingInv == KeyRingTypeOK /\ OneActiveKey /\ CopiesKept /\ EnvelopesKept
-----------------------------------------------------------------------------
\* NewMemoryKeyRing establishes the invariant.
LEMMA InitEstablishesRing == KeyRingInit => RingInv
<1> SUFFICES ASSUME KeyRingInit PROVE RingInv
  OBVIOUS
<1> USE DEF KeyRingInit
<1>1. PICK old \in SUBSET (KeyIds \ {activeID}), m \in [KeyIds -> Materials] :
        keys = [id \in KeyIds |->
                  IF id = activeID
                  THEN [status |-> "active", material |-> m[id]]
                  ELSE IF id \in old
                       THEN [status |-> "decrypt-only", material |-> m[id]]
                       ELSE NoKey]
  OBVIOUS
<1>2. KeyRingTypeOK
  BY <1>1 DEF KeyRingTypeOK, RingKey, Statuses, NoKey, Copy, Envelope
<1>3. OneActiveKey
  <2>1. \A id \in KeyIds : keys[id].status = "active" <=> id = activeID
    BY <1>1 DEF NoKey
  <2> QED
    BY <2>1 DEF OneActiveKey
<1>4. CopiesKept /\ EnvelopesKept
  BY DEF CopiesKept, EnvelopesKept
<1> QED
  BY <1>2, <1>3, <1>4 DEF RingInv

\* Rotation keeps the previous key for decryption, and spoils only what was
\* sealed under an identifier that is used again.
LEMMA RotateKeepsRing ==
  ASSUME RingInv, NEW id \in KeyIds, NEW m \in Materials, Rotate(id, m)
  PROVE  RingInv'
<1> USE DEF RingInv, KeyRingTypeOK, Rotate
<1>1. /\ keys'[id].status = "active"
      /\ id # activeID => /\ keys'[activeID].status = "decrypt-only"
                          /\ keys'[activeID].material = keys[activeID].material
      /\ \A i \in KeyIds \ {id, activeID} : keys'[i] = keys[i]
  BY DEF RingKey
<1>2. KeyRingTypeOK'
  <2>1. keys' \in [KeyIds -> RingKey]
    BY DEF RingKey, Statuses
  <2> QED
    BY <2>1
<1>3. OneActiveKey'
  <2>1. \A i \in KeyIds : keys[i].status = "active" <=> i = activeID
    BY DEF OneActiveKey
  <2>2. ASSUME NEW i \in KeyIds
        PROVE  keys'[i].status = "active" <=> i = id
    <3>1. CASE i = id
      BY <1>1, <3>1
    <3>2. CASE i # id /\ i = activeID
      BY <1>1, <3>2
    <3>3. CASE i # id /\ i # activeID
      BY <1>1, <2>1, <3>3
    <3> QED
      BY <3>1, <3>2, <3>3
  <2> QED
    BY <2>2 DEF OneActiveKey
<1>4. ASSUME NEW k, k.id \in KeyIds, k.id \notin reused', k.id \notin reused => Kept(k)
      PROVE  Kept(k)'
  <2>1. k.id \notin reused /\ Kept(k)
    BY <1>4
  <2>2. k.id # id
    BY <1>4, <2>1 DEF Kept
  <2>3. CASE k.id = activeID
    <3>1. keys[activeID].status = "active"
      BY DEF OneActiveKey
    <3>2. keys[activeID].material = k.material
      BY <2>1, <2>3, <3>1 DEF Kept
    <3>3. /\ keys'[k.id].status = "decrypt-only"
          /\ keys'[k.id].material = k.material
      BY <1>1, <2>2, <2>3, <3>2
    <3> QED
      BY <3>3 DEF Kept
  <2>4. CASE k.id # activeID
    <3>1. keys'[k.id] = keys[k.id]
      BY <1>1, <1>4, <2>2, <2>4
    <3> QED
      BY <2>1, <3>1 DEF Kept
  <2> QED
    BY <2>3, <2>4
<1>5. CopiesKept'
  BY <1>4 DEF CopiesKept, Copy
<1>6. EnvelopesKept'
  BY <1>4 DEF EnvelopesKept, Envelope
<1> QED
  BY <1>2, <1>3, <1>5, <1>6

\* Revocation spares the active key and turns one other into a revoked one.
LEMMA RevokeKeepsRing ==
  ASSUME RingInv, NEW id \in KeyIds, Revoke(id)
  PROVE  RingInv'
<1> USE DEF RingInv, KeyRingTypeOK, Revoke
<1>1. \A i \in KeyIds :
        keys'[i] = IF i = id THEN [status |-> "revoked", material |-> Erased]
                   ELSE keys[i]
  OBVIOUS
<1>2. KeyRingTypeOK'
  BY DEF RingKey, Statuses
<1>3. OneActiveKey'
  <2>1. \A i \in KeyIds : keys[i].status = "active" <=> i = activeID
    BY DEF OneActiveKey
  <2>2. \A i \in KeyIds : keys'[i].status = "active" <=> i = activeID
    BY <1>1, <2>1
  <2> QED
    BY <2>2 DEF OneActiveKey
<1>4. ASSUME NEW k, k.id \in KeyIds, Kept(k)
      PROVE  Kept(k)'
  BY <1>1, <1>4 DEF Kept
<1>5. CopiesKept'
  BY <1>4 DEF CopiesKept, Copy
<1>6. EnvelopesKept'
  BY <1>4 DEF EnvelopesKept, Envelope
<1> QED
  BY <1>2, <1>3, <1>5, <1>6

\* The key Encrypt copies is the active one.
LEMMA ActiveKeepsRing ==
  ASSUME RingInv, NEW e \in Encryptors, Active(e)
  PROVE  RingInv'
<1> USE DEF RingInv, KeyRingTypeOK, Active
<1> DEFINE key == [id |-> activeID, material |-> keys[activeID].material]
<1>1. key \in Copy
  BY DEF Copy, RingKey
<1>2. KeyRingTypeOK'
  BY <1>1
<1>3. OneActiveKey' /\ EnvelopesKept'
  BY DEF OneActiveKey, EnvelopesKept, Kept
<1>4. Kept(key)
  BY DEF Kept
<1>5. \A d \in Encryptors : inHand'[d] = IF d = e THEN {key} ELSE inHand[d]
  OBVIOUS
<1>6. CopiesKept'
  BY <1>4, <1>5 DEF CopiesKept, Kept
<1> QED
  BY <1>2, <1>3, <1>6

\* An envelope names the key that was copied.
LEMMA SealKeepsRing ==
  ASSUME RingInv, NEW e \in Encryptors, NEW b \in Bindings, Seal(e, b)
  PROVE  RingInv'
<1> USE DEF RingInv, KeyRingTypeOK, Seal
<1>1. PICK key \in inHand[e] :
        envelopes' = envelopes \cup
          (IF key.material \in Usable
           THEN {[id |-> key.id, material |-> key.material, binding |-> b]}
           ELSE {})
  OBVIOUS
<1> DEFINE v == [id |-> key.id, material |-> key.material, binding |-> b]
<1>2. key \in Copy
  OBVIOUS
<1>3. KeyRingTypeOK'
  BY <1>1, <1>2 DEF Copy, Envelope
<1>4. OneActiveKey'
  BY DEF OneActiveKey
<1>5. CopiesKept'
  BY DEF CopiesKept, Kept
<1>6. v.id \notin reused => Kept(v)
  BY DEF CopiesKept, Kept
<1>7. EnvelopesKept'
  BY <1>1, <1>6 DEF EnvelopesKept, Kept
<1> QED
  BY <1>3, <1>4, <1>5, <1>7

\* Every step of operators and goroutines preserves the invariant.
LEMMA NextKeepsRing == RingInv /\ [KeyRingNext]_ringVars => RingInv'
<1> SUFFICES ASSUME RingInv, [KeyRingNext]_ringVars PROVE RingInv'
  OBVIOUS
<1>1. CASE UNCHANGED ringVars
  BY <1>1 DEF ringVars, RingInv, KeyRingTypeOK, OneActiveKey, CopiesKept,
              EnvelopesKept, Kept
<1>2. ASSUME NEW id \in KeyIds, NEW m \in Materials, Rotate(id, m)
      PROVE  RingInv'
  BY <1>2, RotateKeepsRing
<1>3. ASSUME NEW id \in KeyIds, Revoke(id) PROVE RingInv'
  BY <1>3, RevokeKeepsRing
<1>4. ASSUME NEW e \in Encryptors, Active(e) PROVE RingInv'
  BY <1>4, ActiveKeepsRing
<1>5. ASSUME NEW e \in Encryptors, NEW b \in Bindings, Seal(e, b)
      PROVE  RingInv'
  BY <1>5, SealKeepsRing
<1> QED
  BY <1>1, <1>2, <1>3, <1>4, <1>5 DEF KeyRingNext
-----------------------------------------------------------------------------
\* The ring always has exactly one active key, and it is the one Active
\* looks up: Encrypt always finds a key, whatever was rotated and revoked.
THEOREM OneKeyIsActive == KeyRingSpec => []OneActiveKey
<1>1. RingInv => OneActiveKey
  BY DEF RingInv
<1> QED
  BY <1>1, InitEstablishesRing, NextKeepsRing, PTL DEF KeyRingSpec

\* Envelopes under identifiers that were never used again are readable until
\* their key is revoked, however Encrypt, Rotate and Revoke interleave.
THEOREM SealedIsReadable == KeyRingSpec => []SealedStaysReadable
<1>1. RingInv => SealedStaysReadable
  <2> SUFFICES ASSUME RingInv,
                      NEW v \in envelopes, v.id \notin reused,
                      NEW b \in Bindings
               PROVE  Decrypt(v, b) =
                        IF keys[v.id].status = "revoked" THEN "key revoked"
                        ELSE IF b = v.binding THEN "plaintext"
                             ELSE "decryption failed"
    BY DEF SealedStaysReadable
  <2>1. Kept(v)
    BY DEF RingInv, EnvelopesKept
  <2>2. CASE keys[v.id].status = "revoked"
    BY <2>2 DEF Decrypt
  <2>3. CASE keys[v.id].status # "revoked"
    <3>1. /\ keys[v.id].status # "absent"
          /\ keys[v.id].material = v.material
      BY <2>1, <2>3 DEF Kept
    <3> QED
      BY <2>3, <3>1 DEF Decrypt
  <2> QED
    BY <2>2, <2>3
<1> QED
  BY <1>1, InitEstablishesRing, NextKeepsRing, PTL DEF KeyRingSpec
-----------------------------------------------------------------------------
(* The outbound client.                                                    *)

\* A call that is under way has requested a host.
ChainTyped ==
  /\ chain \in Seq(Targets)
  /\ phase # "ready" => chain # <<>>

\* A redirect went to a literal loopback only if the policy allows that host,
\* or permits the literal loopback the call itself began with.
RedirectsPermitted ==
  \A i \in 1..Len(chain) :
    chain[i] \in Loopback =>
      i = 1 \/ chain[i] \in AllowedHosts \/ isAllowedLiteralLoopback(chain[1])

\* What a call may connect to for a host.
Permitted(host, a) ==
  \/ a \in Public
  \/ host \in AllowedHosts
  \/ /\ isAllowedLiteralLoopback(host) /\ host = a
     /\ isAllowedLiteralLoopback(chain[1])

\* The addresses that dialContext validated are permitted; they stay what
\* they are while the resolver's answer changes.
CandidatesPermitted ==
  phase = "dial" => \A a \in candidates : Permitted(Host, a)

ClientInv ==
  ChainTyped /\ RedirectsPermitted /\ CandidatesPermitted /\ DialsStayAllowed

\* Whatever the resolver answers at the dial, dialContext keeps only
\* permitted addresses.
LEMMA DialAddressesPermitted ==
  ASSUME ChainTyped, RedirectsPermitted, phase # "ready",
         NEW a \in DialAddresses
  PROVE  Permitted(Host, a)
<1>1. Len(chain) \in Nat \ {0} /\ Len(chain) \in 1..Len(chain)
  BY DEF ChainTyped
<1>2. CASE Host \in AllowedHosts
  BY <1>2 DEF Permitted
<1>3. CASE Host \notin AllowedHosts /\ Host \in Addresses
  <2>1. a = Host /\ (Host \in Public \/ isAllowedLiteralLoopback(Host))
    BY <1>3 DEF DialAddresses
  <2>2. CASE Host \in Public
    BY <2>1, <2>2 DEF Permitted
  <2>3. CASE isAllowedLiteralLoopback(Host)
    <3>1. Host \in Loopback
      BY <2>3 DEF isAllowedLiteralLoopback
    <3>2. Len(chain) = 1 \/ isAllowedLiteralLoopback(chain[1])
      BY <1>1, <1>3, <3>1 DEF RedirectsPermitted, Host
    <3>3. isAllowedLiteralLoopback(chain[1])
      BY <2>3, <3>2 DEF Host
    <3> QED BY <2>1, <2>3, <3>3 DEF Permitted
  <2> QED BY <2>1, <2>2, <2>3
<1>4. CASE Host \notin AllowedHosts /\ Host \notin Addresses
  BY <1>4 DEF DialAddresses, Permitted
<1> QED BY <1>2, <1>3, <1>4

\* The client starts with no call.
LEMMA ClientInitInv == ClientInit => ClientInv
<1> SUFFICES ASSUME ClientInit PROVE ClientInv
  OBVIOUS
<1> USE DEF ClientInit
<1>1. ChainTyped /\ CandidatesPermitted
  BY DEF ChainTyped, CandidatesPermitted
<1>2. RedirectsPermitted
  BY DEF RedirectsPermitted
<1>3. DialsStayAllowed
  BY DEF DialsStayAllowed
<1> QED BY <1>1, <1>2, <1>3 DEF ClientInv

\* A redirect extends the chain and keeps what its first request was.
LEMMA RedirectKeeps ==
  ASSUME ClientInv, NEW host \in Targets, Redirect(host),
         chain' = Append(chain, host)
  PROVE  ClientInv'
<1>0. ChainTyped /\ RedirectsPermitted /\ DialsStayAllowed
  BY DEF ClientInv
<1>1. /\ phase' = "send"
      /\ UNCHANGED <<allowLiteralLoopback, dns, candidates, dialled, idle>>
      /\ phase = "response"
      /\ chain \in Seq(Targets) /\ chain # <<>>
      /\ Len(chain) \in Nat \ {0}
      /\ chain' \in Seq(Targets) /\ chain' # <<>>
  <2>1. chain' # chain
    BY <1>0 DEF ChainTyped
  <2> QED BY <1>0, <2>1 DEF Redirect, Refuse, ChainTyped
<1>2. validateURL(host, isAllowedLiteralLoopback(chain[1]))
  BY <1>1 DEF Redirect, Refuse
<1>3. /\ Len(chain') = Len(chain) + 1
      /\ chain'[Len(chain) + 1] = host
      /\ \A i \in 1..Len(chain) : chain'[i] = chain[i]
      /\ chain'[1] = chain[1]
  BY <1>1
<1>4. ChainTyped'
  BY <1>1 DEF ChainTyped
<1>5. host \in Loopback =>
        host \in AllowedHosts \/ isAllowedLiteralLoopback(chain[1])
  BY <1>2, ClientAssumption DEF validateURL
<1>6. RedirectsPermitted'
  <2> SUFFICES ASSUME NEW i \in 1..(Len(chain) + 1), chain'[i] \in Loopback
               PROVE  \/ i = 1 \/ chain'[i] \in AllowedHosts
                      \/ isAllowedLiteralLoopback(chain[1])
    BY <1>1, <1>3 DEF RedirectsPermitted, isAllowedLiteralLoopback
  <2>1. CASE i = Len(chain) + 1
    BY <1>3, <1>5, <2>1
  <2>2. CASE i \in 1..Len(chain)
    BY <1>0, <1>3, <2>2 DEF RedirectsPermitted
  <2> QED BY <1>1, <2>1, <2>2
<1>7. DialsStayAllowed'
  BY <1>0, <1>1, <1>3 DEF DialsStayAllowed, isAllowedLiteralLoopback
<1> QED
  BY <1>1, <1>4, <1>6, <1>7 DEF ClientInv, CandidatesPermitted

\* Each step preserves the invariant; only a dial adds to the history.
LEMMA ClientNextInv == ClientInv /\ [ClientNext]_clientVars => ClientInv'
<1> SUFFICES ASSUME ClientInv, [ClientNext]_clientVars PROVE ClientInv'
  OBVIOUS
<1>0. ChainTyped /\ RedirectsPermitted /\ CandidatesPermitted /\ DialsStayAllowed
  BY DEF ClientInv
<1>1. ASSUME UNCHANGED <<allowLiteralLoopback, chain>>
      PROVE  /\ RedirectsPermitted'
             /\ dialled' = dialled => DialsStayAllowed'
             /\ phase' = "ready" \/ phase # "ready" => ChainTyped'
  BY <1>0, <1>1
  DEF RedirectsPermitted, DialsStayAllowed, isAllowedLiteralLoopback, ChainTyped
<1> USE DEF ClientInv
<1>2. ASSUME NEW n \in Names, NEW answer \in Answers, ResolverChanges(n, answer)
      PROVE  ClientInv'
  <2> USE <1>2 DEF ResolverChanges
  <2>1. CandidatesPermitted' /\ ChainTyped'
    BY <1>0 DEF CandidatesPermitted, Permitted, isAllowedLiteralLoopback, Host,
                ChainTyped
  <2> QED BY <1>1, <2>1
<1>3. ASSUME NEW host \in Targets, Do(host) PROVE ClientInv'
  <2> USE <1>3 DEF Do
  <2>1. ChainTyped' /\ CandidatesPermitted'
    BY DEF ChainTyped, CandidatesPermitted
  <2>2. RedirectsPermitted'
    BY DEF RedirectsPermitted
  <2>3. DialsStayAllowed'
    BY DEF DialsStayAllowed
  <2> QED BY <2>1, <2>2, <2>3
<1>4. ASSUME Refuse PROVE ClientInv'
  BY <1>1, <1>4 DEF Refuse, CandidatesPermitted
<1>5. CASE RoundTrip \/ Reuse \/ Respond
  <2> USE <1>5 DEF RoundTrip, Reuse, Respond
  <2>1. CASE Refuse
    BY <1>4, <2>1
  <2>2. CASE ~Refuse
    BY <1>1, <2>2 DEF CandidatesPermitted
  <2> QED BY <2>1, <2>2
<1>6. CASE DialContext
  <2>1. CASE DialAddresses = {}
    BY <1>4, <1>6, <2>1 DEF DialContext
  <2>2. CASE DialAddresses # {}
    <3>1. /\ phase = "connect" /\ candidates' = DialAddresses
          /\ UNCHANGED <<allowLiteralLoopback, chain, dialled>>
      BY <1>6, <2>2 DEF DialContext
    <3>2. \A a \in candidates' : Permitted(Host, a)
      BY <1>0, <3>1, DialAddressesPermitted
    <3>3. CandidatesPermitted'
      BY <3>1, <3>2
      DEF CandidatesPermitted, Permitted, isAllowedLiteralLoopback, Host
    <3> QED BY <1>1, <3>1, <3>3
  <2> QED BY <2>1, <2>2
<1>7. ASSUME NEW a \in Addresses, Dial(a) PROVE ClientInv'
  <2>1. /\ phase = "dial" /\ a \in candidates /\ candidates' \subseteq candidates
        /\ dialled' = dialled \cup {[host |-> Host, address |-> a]}
        /\ UNCHANGED <<allowLiteralLoopback, chain>>
    BY <1>7 DEF Dial
  <2>2. Permitted(Host, a)
    BY <1>0, <2>1 DEF CandidatesPermitted
  <2>3. CandidatesPermitted'
    BY <1>0, <2>1
    DEF CandidatesPermitted, Permitted, isAllowedLiteralLoopback, Host
  <2>4. DialsStayAllowed'
    BY <1>0, <2>1, <2>2
    DEF DialsStayAllowed, Permitted, isAllowedLiteralLoopback
  <2> QED BY <1>1, <2>1, <2>3, <2>4
<1>8. ASSUME NEW host \in Targets, Redirect(host) PROVE ClientInv'
  <2>1. CASE chain' = Append(chain, host)
    BY <1>8, <2>1, RedirectKeeps
  <2>2. CASE Refuse
    BY <1>4, <2>2
  <2> QED BY <1>8, <2>1, <2>2 DEF Redirect
<1>9. ASSUME NEW host \in Targets, Drop(host) PROVE ClientInv'
  BY <1>0, <1>1, <1>9
  DEF Drop, CandidatesPermitted, Permitted, isAllowedLiteralLoopback, Host,
      ChainTyped
<1>10. CASE UNCHANGED clientVars
  BY <1>0, <1>1, <1>10
  DEF clientVars, CandidatesPermitted, Permitted, isAllowedLiteralLoopback, Host,
      ChainTyped
<1> QED
  BY <1>2, <1>3, <1>5, <1>6, <1>7, <1>8, <1>9, <1>10 DEF ClientNext

\* No call connects to an address its policy does not permit: the resolver
\* may answer anything, at any time and differently at validation and dial,
\* and redirects may lead anywhere (safehttp/client.go, dialContext and
\* CheckRedirect).
THEOREM DialsAreSafe == ClientSpec => []DialsStayAllowed
<1>1. ClientInv => DialsStayAllowed
  BY DEF ClientInv
<1> QED BY <1>1, ClientInitInv, ClientNextInv, PTL DEF ClientSpec

-----------------------------------------------------------------------------
(* Pages, for collections and page sizes of any length within the width.   *)

LEMMA WrapIsIdentity ==
  ASSUME NEW n \in Int, -IntMax <= n, n <= IntMax
  PROVE  Wrap(n) = n
<1>1. /\ IntMax \in Nat
      /\ n + IntMax + 1 \in Nat /\ 2 * (IntMax + 1) \in Nat
      /\ n + IntMax + 1 < 2 * (IntMax + 1)
  BY PageAssumption
<1>2. (n + IntMax + 1) % (2 * (IntMax + 1)) = n + IntMax + 1
  BY <1>1
<1> QED BY <1>1, <1>2 DEF Wrap

LEMMA PageSizeIsPositive ==
  ASSUME NEW requested \in Int, NEW options,
         options.default \in Int, options.maximum \in Int
  PROVE  pageSize(requested, options) \in Nat \ {0}
BY DEF pageSize

\* Products of numbers of pages and sizes.
LEMMA PagesBefore ==
  ASSUME NEW p \in Nat, NEW n \in Nat \ {0}
  PROVE  p * n \in Nat /\ p <= p * n /\ (p + 1) * n = p * n + n
OBVIOUS

\* Parts of sequences.
LEMMA PartOfPart ==
  ASSUME NEW X, NEW t \in Seq(X), NEW a \in Nat, NEW n \in Nat \ {0}, NEW b \in Nat,
         a + n <= b, b <= Len(t)
  PROVE  /\ SubSeq(SubSeq(t, a + 1, b), 1, n) = SubSeq(t, a + 1, a + n)
         /\ SubSeq(t, a + 1, b)[n] = t[a + n]
<1> DEFINE u == SubSeq(t, a + 1, b)
<1>1. /\ u \in Seq(X) /\ Len(u) = b - a
      /\ \A i \in 1..(b - a) : u[i] = t[a + i]
  OBVIOUS
<1>2. SubSeq(t, a + 1, a + n) = [i \in 1..n |-> t[a + i]]
  OBVIOUS
<1> HIDE DEF u
<1>3. SubSeq(u, 1, n) = [i \in 1..n |-> u[i]]
  BY <1>1
<1> QED BY <1>1, <1>2, <1>3 DEF u

LEMMA PartsJoined ==
  ASSUME NEW X, NEW t \in Seq(X), NEW a \in Nat, NEW b \in Nat, a <= b, b <= Len(t)
  PROVE  SubSeq(t, 1, a) \o SubSeq(t, a + 1, b) = SubSeq(t, 1, b)
OBVIOUS

\* Within the width, the window of a page starts and ends where it should.
LEMMA WindowOfPage ==
  ASSUME NEW p \in Nat \ {0}, NEW n \in Nat \ {0}, NEW total \in Nat,
         total + n < IntMax, (p - 1) * n <= IntMax
  PROVE  LET w == Bounds([page |-> p, size |-> n], total)
         IN  /\ w.start = AtMost((p - 1) * n, total)
             /\ w.end = AtMost(w.start + n, total)
             /\ w.hasNext \in BOOLEAN /\ (w.hasNext <=> w.end < total)
             /\ w.nextPage = IF w.end < total THEN Wrap(p + 1) ELSE 0
<1> DEFINE s == AtMost((p - 1) * n, total)
<1>1. IntMax \in Nat /\ (p - 1) * n \in Nat
  BY PageAssumption, PagesBefore
<1>2. Wrap((p - 1) * n) = (p - 1) * n
  BY <1>1, WrapIsIdentity
<1>3. s \in Nat /\ s <= total
  BY <1>1 DEF AtMost
<1>4. Wrap(s + n) = s + n
  <2> HIDE DEF s
  <2> QED BY <1>1, <1>3, WrapIsIdentity
<1> DEFINE e == AtMost(s + n, total)
<1>5. Bounds([page |-> p, size |-> n], total) =
        [start |-> s, end |-> e, hasNext |-> e < total,
         nextPage |-> IF e < total THEN Wrap(p + 1) ELSE 0]
  BY <1>2, <1>4 DEF Bounds
<1> DEFINE w == Bounds([page |-> p, size |-> n], total)
<1>6. CASE e < total
  <2>1. w = [start |-> s, end |-> e, hasNext |-> TRUE, nextPage |-> Wrap(p + 1)]
    BY <1>5, <1>6
  <2> HIDE DEF w, e
  <2>2. w.start = s /\ w.end = e /\ w.hasNext = TRUE /\ w.nextPage = Wrap(p + 1)
    BY <2>1
  <2> QED BY <1>6, <2>2 DEF w, e
<1>7. CASE ~(e < total)
  <2>1. w = [start |-> s, end |-> e, hasNext |-> FALSE, nextPage |-> 0]
    <3>0. e \in Int
      BY <1>3 DEF AtMost
    <3>1. (e < total) = FALSE
      <4> HIDE DEF e
      <4> QED BY <1>7, <3>0
    <3> QED BY <1>5, <3>1, Zenon
  <2> HIDE DEF w, e
  <2>2. w.start = s /\ w.end = e /\ w.hasNext = FALSE /\ w.nextPage = 0
    BY <2>1
  <2> QED BY <1>7, <2>2 DEF w, e
<1> QED BY <1>6, <1>7

\* Where a walk stands: what was shown is what lies before the next page.
Shown(k) ==
  /\ k \in 0..Len(walk.items) /\ calls <= k
  /\ seen = SubSeq(walk.items, 1, k)
  /\ walk.kind = "numbered" =>
       position \in Nat \ {0} /\ k = (position - 1) * PageSize
  /\ walk.kind = "cursor" =>
       IF k = 0 THEN position = Blank ELSE position = walk.items[k]

PageInv ==
  /\ walk \in Walks /\ more \in BOOLEAN /\ calls \in Nat
  /\ more => \E k \in Nat : Shown(k)
  /\ ~more => seen = walk.items

LEMMA PagesInitially == PageInit => PageInv
<1> SUFFICES ASSUME PageInit PROVE PageInv
  OBVIOUS
<1>1. walk \in Walks /\ more = TRUE /\ calls = 0 /\ seen = <<>>
  BY DEF PageInit
<1>2. walk.items \in Seq(Range(walk.items))
  BY <1>1, PageAssumption
<1>3. PageSize \in Nat
  BY <1>1, PageAssumption, PageSizeIsPositive DEF PageSize
<1>4. Shown(0)
  <2>1. SubSeq(walk.items, 1, 0) = <<>>
    BY <1>2
  <2>2. walk.kind = "numbered" => position = 1 /\ 0 = (position - 1) * PageSize
    BY <1>3 DEF PageInit
  <2>3. walk.kind = "cursor" => position = Blank
    BY DEF PageInit
  <2> QED BY <1>1, <1>2, <2>1, <2>2, <2>3 DEF Shown
<1> QED BY <1>1, <1>4 DEF PageInv

\* A page of either kind shows the items after the first k.
LEMMA PageAfter ==
  ASSUME walk \in Walks, Fits, NEW k \in Nat, Shown(k), calls \in Nat
  PROVE  \E e \in k..Len(walk.items) :
            /\ Page.items = SubSeq(walk.items, k + 1, e)
            /\ Page.hasNext \in BOOLEAN /\ (Page.hasNext <=> e < Len(walk.items))
            /\ Page.hasNext => e > k
            /\ Page.hasNext /\ walk.kind = "numbered" =>
                 Page.next = position + 1 /\ e = position * PageSize
            /\ Page.hasNext /\ walk.kind = "cursor" => Page.next = walk.items[e]
<1> DEFINE items == walk.items
           n == PageSize
<1>0. /\ IntMax \in Nat /\ items \in Seq(Range(items)) /\ Blank \notin Range(items)
      /\ \A i, j \in DOMAIN items : items[i] = items[j] => i = j
      /\ walk.kind \in {"numbered", "cursor"}
      /\ n \in Nat \ {0} /\ Len(items) \in Nat /\ Len(items) + n < IntMax
  BY PageAssumption, PageSizeIsPositive DEF PageSize, Fits
<1>1. k <= Len(items)
  BY <1>0 DEF Shown
<1>2. CASE walk.kind = "numbered"
  <2>1. position \in Nat \ {0} /\ k = (position - 1) * n
    BY <1>2 DEF Shown
  <2> DEFINE w == Bounds([page |-> position, size |-> n], Len(items))
             e == AtMost(k + n, Len(items))
  <2>2. NewNumbered(position, walk.requested, walk.options) = [page |-> position, size |-> n]
    BY <2>1 DEF NewNumbered, PageSize
  <2>3. /\ w.start = k /\ w.end = e
        /\ w.hasNext \in BOOLEAN /\ (w.hasNext <=> e < Len(items))
        /\ w.nextPage = IF e < Len(items) THEN Wrap(position + 1) ELSE 0
    <3>1. (position - 1) * n <= IntMax
      BY <1>0, <1>1, <2>1
    <3>2. AtMost(k, Len(items)) = k
      BY <1>0, <1>1 DEF AtMost
    <3> HIDE DEF n, items
    <3> QED BY <1>0, <2>1, <3>1, <3>2, WindowOfPage
  <2>4. /\ Page.items = SubSeq(items, k + 1, e)
        /\ Page.hasNext \in BOOLEAN /\ (Page.hasNext <=> e < Len(items))
        /\ Page.next = w.nextPage
    <3>1. Page = SliceNumbered([page |-> position, size |-> n], items)
      BY <1>2, <2>2 DEF Page
    <3>2. Page = [items |-> SubSeq(items, w.start + 1, w.end), hasNext |-> w.hasNext,
                  next |-> w.nextPage]
      BY <3>1 DEF SliceNumbered
    <3> HIDE DEF w, e, n, items
    <3>3. w.hasNext \in BOOLEAN /\ (w.hasNext <=> e < Len(items))
      BY <2>3
    <3> QED BY <2>3, <3>2, <3>3
  <2>5. e \in k..Len(items) /\ (e < Len(items) => e = k + n /\ e > k)
    BY <1>0, <1>1 DEF AtMost
  <2>6. ASSUME e < Len(items)
        PROVE  w.nextPage = position + 1 /\ e = position * n
    <3>1. position - 1 <= k /\ position * n = k + n
      <4>1. position - 1 \in Nat /\ position = (position - 1) + 1
        BY <2>1
      <4> QED BY <1>0, <2>1, <4>1, PagesBefore
    <3>2. Wrap(position + 1) = position + 1
      BY <1>0, <1>1, <2>1, <2>5, <2>6, <3>1, WrapIsIdentity
    <3> QED BY <2>3, <2>5, <2>6, <3>1, <3>2
  <2> HIDE DEF e, w
  <2> QED BY <1>2, <2>4, <2>5, <2>6
<1>3. CASE walk.kind = "cursor"
  <2> DEFINE c == NewCursor(position, walk.requested, walk.options)
             e == AtMost(k + n, Len(items))
             end == AtMost(k + n + 1, Len(items))
             fetched == SubSeq(items, k + 1, end)
  <2>1. c.after = position /\ c.size = n
    BY DEF NewCursor, PageSize
  <2>2. FetchLimit(c) = n + 1 /\ Wrap(k + (n + 1)) = k + n + 1
    BY <1>0, <1>1, <2>1, WrapIsIdentity DEF FetchLimit
  <2>3. Slice(c, items) = Boundary(c, fetched)
    <3>1. CASE k = 0
      BY <1>3, <2>1, <2>2, <3>1 DEF Shown, Slice
    <3>2. CASE k # 0
      <4>1. k \in DOMAIN items /\ position = items[k] /\ position # Blank
        BY <1>0, <1>1, <1>3, <3>2 DEF Shown, Range
      <4> DEFINE found == {i \in DOMAIN items : items[i] = c.after}
      <4>2. found = {k}
        BY <1>0, <2>1, <4>1
      <4>3. (CHOOSE i \in found : \A j \in found : i <= j) = k
        BY <4>2
      <4> QED BY <2>1, <2>2, <4>1, <4>2, <4>3 DEF Slice
    <3> QED BY <3>1, <3>2
  <2>4. end \in k..Len(items) /\ Len(fetched) = end - k
    BY <1>0, <1>1 DEF AtMost
  <2>5. Len(fetched) <= n <=> ~(e < Len(items))
    BY <1>0, <1>1, <2>4 DEF AtMost
  <2>6. e \in k..Len(items) /\ (e < Len(items) => e = k + n /\ e > k /\ e < end)
    BY <1>0, <1>1 DEF AtMost
  <2>0. Page = Boundary(c, fetched)
    BY <1>3, <2>3 DEF Page
  <2>7. CASE e < Len(items)
    <3>1. SubSeq(fetched, 1, n) = SubSeq(items, k + 1, e) /\ fetched[n] = items[e]
      <4>1. e = k + n /\ k + n <= end /\ end <= Len(items) /\ end \in Nat
        BY <1>0, <2>4, <2>6, <2>7
      <4> HIDE DEF e, end, n, items
      <4> QED BY <1>0, <4>1, PartOfPart DEF fetched
    <3>2. /\ Page.items = SubSeq(fetched, 1, n) /\ Page.hasNext = TRUE
          /\ Page.next = fetched[n]
      <4>1. Page = [items |-> SubSeq(fetched, 1, n), hasNext |-> TRUE, next |-> fetched[n]]
        <5> HIDE DEF fetched, e, n, c
        <5> QED BY <2>0, <2>1, <2>5, <2>7 DEF Boundary
      <4> QED BY <4>1
    <3> HIDE DEF e, end, n, items
    <3> QED BY <1>3, <2>6, <2>7, <3>1, <3>2 DEF items
  <2>8. CASE ~(e < Len(items))
    <3>1. e = Len(items) /\ end = Len(items)
      BY <1>0, <1>1, <2>8 DEF AtMost
    <3>2. Page.items = fetched /\ Page.hasNext = FALSE
      <4>1. Page = [items |-> fetched, hasNext |-> FALSE, next |-> Blank]
        <5> HIDE DEF fetched, e, n, c
        <5> QED BY <2>0, <2>1, <2>5, <2>8 DEF Boundary
      <4> QED BY <4>1
    <3>3. Page.items = SubSeq(items, k + 1, e)
      BY <3>1, <3>2
    <3> HIDE DEF e, end, n, items
    <3> QED BY <1>3, <2>6, <2>8, <3>2, <3>3 DEF items
  <2> QED BY <2>7, <2>8
<1> QED BY <1>0, <1>2, <1>3

LEMMA PagesStep ==
  ASSUME PageInv, [FetchPage]_pageVars
  PROVE  PageInv'
<1>1. CASE UNCHANGED pageVars
  BY <1>1 DEF PageInv, Shown, PageSize, pageVars
<1>2. CASE FetchPage
  <2>1. more /\ Fits /\ walk \in Walks /\ walk' = walk /\ calls \in Nat
    BY <1>2 DEF FetchPage, PageInv
  <2>2. PICK k \in Nat : Shown(k)
    BY <2>1 DEF PageInv
  <2>3. PICK e \in k..Len(walk.items) :
            /\ Page.items = SubSeq(walk.items, k + 1, e)
            /\ Page.hasNext \in BOOLEAN /\ (Page.hasNext <=> e < Len(walk.items))
            /\ Page.hasNext => e > k
            /\ Page.hasNext /\ walk.kind = "numbered" =>
                 Page.next = position + 1 /\ e = position * PageSize
            /\ Page.hasNext /\ walk.kind = "cursor" => Page.next = walk.items[e]
    BY <2>1, <2>2, PageAfter
  <2>4. walk.items \in Seq(Range(walk.items)) /\ Len(walk.items) \in Nat
    BY <2>1, PageAssumption
  <2>5. seen' = SubSeq(walk.items, 1, e)
    <3>1. seen = SubSeq(walk.items, 1, k) /\ k <= e
      BY <2>2, <2>3 DEF Shown
    <3>2. seen' = SubSeq(walk.items, 1, k) \o SubSeq(walk.items, k + 1, e)
      BY <1>2, <2>3, <3>1 DEF FetchPage
    <3>3. e \in Nat /\ e <= Len(walk.items)
      BY <2>3, <2>4
    <3> QED BY <2>4, <3>1, <3>2, <3>3, PartsJoined
  <2>6. /\ more' \in BOOLEAN /\ (more' <=> e < Len(walk.items))
        /\ position' = Page.next /\ calls' = calls + 1
    BY <1>2, <2>3 DEF FetchPage
  <2>7. CASE e < Len(walk.items)
    <3>1. calls <= k /\ k < e
      BY <2>2, <2>3, <2>7 DEF Shown
    <3>2. walk.kind = "numbered" =>
            position' \in Nat \ {0} /\ e = (position' - 1) * PageSize
      <4>1. walk.kind = "numbered" => position \in Nat \ {0}
        BY <2>2 DEF Shown
      <4>2. walk.kind = "numbered" =>
              position' = position + 1 /\ e = position * PageSize
        BY <2>3, <2>6, <2>7
      <4> QED BY <4>1, <4>2
    <3>3. walk.kind = "cursor" => position' = walk.items[e]
      BY <2>3, <2>6, <2>7
    <3>4. Shown(e)'
      BY <2>1, <2>3, <2>4, <2>5, <2>6, <3>1, <3>2, <3>3 DEF Shown, PageSize
    <3>5. more' = TRUE /\ calls' \in Nat /\ e \in Nat
      BY <2>1, <2>3, <2>4, <2>6, <2>7
    <3> QED BY <2>1, <3>4, <3>5 DEF PageInv
  <2>8. CASE ~(e < Len(walk.items))
    <3>1. e = Len(walk.items)
      BY <2>3, <2>4, <2>8
    <3>2. SubSeq(walk.items, 1, Len(walk.items)) = walk.items
      BY <2>4
    <3>3. more' = FALSE /\ calls' \in Nat /\ seen' = walk.items
      BY <2>1, <2>5, <2>6, <2>8, <3>1, <3>2
    <3> QED BY <2>1, <3>3 DEF PageInv
  <2> QED BY <2>7, <2>8
<1> QED BY <1>1, <1>2

LEMMA InvPagesPartition == PageInv => PagesPartition
<1> SUFFICES ASSUME PageInv, Fits PROVE PagesPartition
  BY DEF PagesPartition
<1> DEFINE items == walk.items
           n == PageSize
<1>1. /\ IntMax \in Nat /\ items \in Seq(Range(items)) /\ Len(items) \in Nat
      /\ n \in Nat \ {0} /\ Len(items) + n < IntMax
  BY PageAssumption, PageSizeIsPositive DEF PageSize, Fits, PageInv
<1>2. /\ seen = SubSeq(items, 1, Len(seen))
      /\ ~more => seen = items
      /\ calls <= Len(seen) \/ ~more
  <2>1. CASE ~more
    BY <1>1, <2>1 DEF PageInv
  <2>2. CASE more
    <3>1. PICK k \in Nat : Shown(k)
      BY <2>2 DEF PageInv
    <3>2. k <= Len(items) /\ calls <= k /\ seen = SubSeq(items, 1, k)
      BY <3>1 DEF Shown
    <3>3. Len(seen) = k
      BY <1>1, <3>2
    <3> QED BY <2>2, <3>2, <3>3
  <2> QED BY <2>1, <2>2
<1>3. ASSUME NEW page \in 1..(IntMax \div n)
      PROVE  Safe(Bounds(NewNumbered(page, walk.requested, walk.options), Len(items)),
                  Len(items))
  <2>1. page \in Nat \ {0} /\ (page - 1) * n <= IntMax
    <3>1. n * (IntMax \div n) <= IntMax
      BY <1>1
    <3>2. IntMax \div n \in Nat
      BY <1>1
    <3>3. page \in Nat \ {0} /\ page <= IntMax \div n
      BY <3>2
    <3>4. page * n <= (IntMax \div n) * n
      BY <1>1, <3>2, <3>3
    <3> QED BY <1>1, <3>1, <3>2, <3>3, <3>4
  <2>2. NewNumbered(page, walk.requested, walk.options) = [page |-> page, size |-> n]
    BY <2>1 DEF NewNumbered, PageSize
  <2> DEFINE w == Bounds([page |-> page, size |-> n], Len(items))
  <2>3. /\ w.start = AtMost((page - 1) * n, Len(items))
        /\ w.end = AtMost(w.start + n, Len(items))
    <3> HIDE DEF n, items
    <3> QED BY <1>1, <2>1, WindowOfPage
  <2>4. (page - 1) * n \in Nat
    BY <1>1, <2>1
  <2>5. w.start \in Nat /\ w.start <= Len(items)
    BY <1>1, <2>3, <2>4 DEF AtMost
  <2> HIDE DEF w
  <2>6. w.start <= w.end /\ w.end <= Len(items)
    BY <1>1, <2>3, <2>5 DEF AtMost
  <2> QED BY <2>2, <2>5, <2>6 DEF Safe, w
<1> QED BY <1>2, <1>3 DEF PagesPartition

\* Whatever the collection, the page size and the options, clients that
\* follow numbered pages or cursors see every item once and in order, with
\* no empty page before the last, and every window is safe, while the
\* collection and a page fit an integer (numbered.go:42, cursor.go:58).
THEOREM PagesShowEverything == PageSpec => []PagesPartition
<1>1. PageInv /\ [FetchPage]_pageVars => PageInv'
  BY PagesStep
<1> QED BY <1>1, PagesInitially, InvPagesPartition, PTL DEF PageSpec
-----------------------------------------------------------------------------
LEMMA LeastNumber ==
  ASSUME NEW T, T \subseteq Nat, T # {}
  PROVE  \E n \in T : \A m \in T : n <= m
<1> DEFINE Intervals == {1..n : n \in T}
<1>1. Intervals \subseteq FiniteSubsetsOf(Nat) /\ Intervals # {}
  <2>1. \A n \in Nat : 1..n \in SUBSET Nat /\ IsFiniteSet(1..n)
    BY FS_Interval
  <2> QED BY <2>1 DEF FiniteSubsetsOf
<1>2. PICK b \in Intervals : \A c \in Intervals : ~ (<<c, b>> \in StrictSubsetOrdering(Nat))
  <2> HIDE DEF Intervals
  <2> QED BY <1>1, WFMin, FS_StrictSubsetOrderingWellFounded
<1>3. PICK n \in T : b = 1..n
  OBVIOUS
<1>4. ASSUME NEW m \in T, m < n PROVE FALSE
  <2>1. 1..m \in Intervals /\ 1..m \subseteq 1..n /\ n \in 1..n /\ n \notin 1..m
    BY <1>4
  <2>2. 1..m \in SUBSET Nat /\ 1..n \in SUBSET Nat
    OBVIOUS
  <2> QED BY <1>2, <1>3, <2>1, <2>2 DEF StrictSubsetOrdering
<1> QED BY <1>3, <1>4

-----------------------------------------------------------------------------
(* Ranks in a finite total order.                                          *)

Below(S, R, i) == {j \in S : <<j, i>> \in R}

StrictTotal(S, R) ==
  /\ \A i \in S : <<i, i>> \notin R
  /\ \A i, j, k \in S : <<i, j>> \in R /\ <<j, k>> \in R => <<i, k>> \in R
  /\ \A i, j \in S : i # j => <<i, j>> \in R \/ <<j, i>> \in R

\* Every number below the size of S is the rank of exactly one element.
LEMMA RanksAreNumbers ==
  ASSUME NEW S, IsFiniteSet(S), NEW R, StrictTotal(S, R)
  PROVE  /\ \A i \in S : Cardinality(Below(S, R, i)) \in 0..(Cardinality(S) - 1)
         /\ \A i, j \in S : <<i, j>> \in R =>
              Cardinality(Below(S, R, i)) < Cardinality(Below(S, R, j))
         /\ \A i, j \in S : Cardinality(Below(S, R, i)) = Cardinality(Below(S, R, j)) => i = j
         /\ \A m \in 0..(Cardinality(S) - 1) : \E i \in S : Cardinality(Below(S, R, i)) = m
<1> DEFINE n == Cardinality(S)
           b(i) == Cardinality(Below(S, R, i))
<1>0. n \in Nat
  BY FS_CardinalityType
<1>1. ASSUME NEW i \in S
      PROVE  b(i) \in Nat /\ b(i) <= n - 1 /\ IsFiniteSet(Below(S, R, i))
  <2>1. Below(S, R, i) \subseteq S \ {i}
    BY DEF Below, StrictTotal
  <2>2. IsFiniteSet(S \ {i}) /\ Cardinality(S \ {i}) = n - 1
    BY FS_RemoveElement
  <2>3. IsFiniteSet(Below(S, R, i)) /\ Cardinality(Below(S, R, i)) <= Cardinality(S \ {i})
    BY <2>1, <2>2, FS_Subset
  <2> QED BY <2>2, <2>3, FS_CardinalityType
<1>2. ASSUME NEW i \in S, NEW j \in S, <<i, j>> \in R
      PROVE  b(i) < b(j)
  <2>1. Below(S, R, i) \cup {i} \subseteq Below(S, R, j)
    BY <1>2 DEF Below, StrictTotal
  <2>2. i \notin Below(S, R, i)
    BY DEF Below, StrictTotal
  <2>3. IsFiniteSet(Below(S, R, j)) /\ IsFiniteSet(Below(S, R, i)) /\ b(i) \in Nat /\ b(j) \in Nat
    BY <1>1
  <2>4. Cardinality(Below(S, R, i) \cup {i}) = b(i) + 1
    BY <2>2, <2>3, FS_AddElement
  <2>5. Cardinality(Below(S, R, i) \cup {i}) <= b(j)
    BY <2>1, <2>3, FS_Subset
  <2> QED BY <2>3, <2>4, <2>5
<1>3. ASSUME NEW i \in S, NEW j \in S, b(i) = b(j)
      PROVE  i = j
  <2>1. <<i, j>> \notin R /\ <<j, i>> \notin R
    BY <1>1, <1>2, <1>3
  <2> QED BY <2>1 DEF StrictTotal
<1>4. ASSUME NEW m \in 0..(n - 1)
      PROVE  \E i \in S : b(i) = m
  <2> DEFINE f == [i \in S |-> b(i)]
             T == 0..(n - 1)
  <2>1. f \in Injection(S, T)
    <3>1. f \in [S -> T]
      BY <1>0, <1>1
    <3>2. \A i, j \in S : f[i] = f[j] => i = j
      <4>1. \A i \in S : f[i] = b(i)
        OBVIOUS
      <4> HIDE DEF f, b
      <4> QED BY <1>3, <4>1
    <3> QED BY <3>1, <3>2 DEF Injection, IsInjective
  <2>2. IsFiniteSet(T) /\ Cardinality(T) = n
    BY <1>0, FS_Interval
  <2>3. f \in Surjection(S, T)
    <3> HIDE DEF f, T
    <3> QED BY <2>1, <2>2, FS_Injection
  <2>4. PICK i \in S : f[i] = m
    <3> HIDE DEF f
    <3> QED BY <2>3 DEF Surjection
  <2> QED BY <2>4
<1> QED
  <2>1. \A i \in S : b(i) \in 0..(n - 1)
    <3> HIDE DEF b, n
    <3> QED BY <1>0, <1>1
  <2> HIDE DEF b, n
  <2> QED BY <1>2, <1>3, <1>4, <2>1 DEF b, n

\* Ranked lists every element of S once, in the order of R.
LEMMA RankedLists ==
  ASSUME NEW S, IsFiniteSet(S), NEW R, StrictTotal(S, R)
  PROVE  /\ Cardinality(S) \in Nat /\ DOMAIN Ranked(S, R) = 1..Cardinality(S)
         /\ \A k \in 1..Cardinality(S) : Ranked(S, R)[k] \in S
         /\ \A i \in S : \E k \in 1..Cardinality(S) : Ranked(S, R)[k] = i
         /\ \A k, l \in 1..Cardinality(S) : Ranked(S, R)[k] = Ranked(S, R)[l] => k = l
         /\ \A k, l \in 1..Cardinality(S) : <<Ranked(S, R)[k], Ranked(S, R)[l]>> \in R => k < l
<1> DEFINE n == Cardinality(S)
           r == Ranked(S, R)
<1>0. n \in Nat
  BY FS_CardinalityType
<1>1. \A k \in 1..n : r[k] = CHOOSE i \in S : Cardinality(Below(S, R, i)) = k - 1
  BY DEF Ranked, Below
<1>2. DOMAIN r = 1..n
  BY DEF Ranked
<1> HIDE DEF r, n
<1>3. ASSUME NEW k \in 1..n
      PROVE  r[k] \in S /\ Cardinality(Below(S, R, r[k])) = k - 1
  <2>1. k - 1 \in 0..(n - 1)
    BY <1>0
  <2>2. \E i \in S : Cardinality(Below(S, R, i)) = k - 1
    BY <2>1, RanksAreNumbers DEF n
  <2> QED BY <1>1, <2>2
<1>4. ASSUME NEW i \in S
      PROVE  \E k \in 1..n : r[k] = i
  <2>1. Cardinality(Below(S, R, i)) \in 0..(n - 1)
    BY RanksAreNumbers DEF n
  <2>2. PICK k \in 1..n : Cardinality(Below(S, R, i)) = k - 1
    BY <1>0, <2>1
  <2>3. r[k] = i
    BY <1>3, <2>2, RanksAreNumbers
  <2> QED BY <2>3
<1>5. \A k, l \in 1..n : r[k] = r[l] => k = l
  BY <1>0, <1>3
<1>6. \A k, l \in 1..n : <<r[k], r[l]>> \in R => k < l
  BY <1>0, <1>3, RanksAreNumbers
<1> QED BY <1>0, <1>2, <1>3, <1>4, <1>5, <1>6 DEF r, n

LEMMA NumbersInOrder ==
  ASSUME NEW S, S \subseteq Int
  PROVE  StrictTotal(S, {p \in S \X S : p[1] < p[2]})
BY DEF StrictTotal

LEMMA SmallestIsLeast ==
  ASSUME NEW T, T \subseteq Nat, T # {}
  PROVE  Min(T) \in T /\ \A m \in T : Min(T) <= m
<1>1. \E n \in T : \A m \in T : n <= m
  BY LeastNumber
<1> QED BY <1>1 DEF Min
-----------------------------------------------------------------------------
(* FairOrder.                                                              *)

OfKey(items, g) == {j \in DOMAIN items : Group(items[j]) = g}

\* The items of a group take the turns 0, 1, 2, ... in the order of their
\* positions.
LEMMA TurnsOfGroup ==
  ASSUME NEW X, NEW items \in Seq(X), NEW g
  PROVE  /\ IsFiniteSet(OfKey(items, g)) /\ Cardinality(OfKey(items, g)) \in Nat
         /\ \A i \in OfKey(items, g) : Turn(items, i) \in Nat
         /\ \A i, j \in OfKey(items, g) : i < j => Turn(items, i) < Turn(items, j)
         /\ \A m \in 0..(Cardinality(OfKey(items, g)) - 1) :
              \E i \in OfKey(items, g) : Turn(items, i) = m
<1> DEFINE S == OfKey(items, g)
           R == {p \in S \X S : p[1] < p[2]}
<1>1. S \subseteq 1..Len(items) /\ S \subseteq Int /\ Len(items) \in Nat
  BY DEF OfKey
<1>2. IsFiniteSet(S)
  <2>1. IsFiniteSet(1..Len(items))
    BY <1>1, FS_Interval
  <2> HIDE DEF S
  <2> QED BY <1>1, <2>1, FS_Subset
<1>3. StrictTotal(S, R)
  <2> HIDE DEF S
  <2> QED BY <1>1, NumbersInOrder
<1>4. ASSUME NEW i \in S
      PROVE  Turn(items, i) = Cardinality(Below(S, R, i))
  <2>1. {j \in 1..(i - 1) : Group(items[j]) = Group(items[i])} = Below(S, R, i)
    BY <1>1 DEF Below, OfKey
  <2> QED BY <2>1 DEF Turn
<1>5. \A i, j \in S : i < j => <<i, j>> \in R
  OBVIOUS
<1> HIDE DEF S, R
<1>6. Cardinality(S) \in Nat
  BY <1>2, FS_CardinalityType
<1>7. \A i \in S : Turn(items, i) \in Nat
  BY <1>2, <1>3, <1>4, <1>6, RanksAreNumbers
<1>8. \A i, j \in S : i < j => Turn(items, i) < Turn(items, j)
  <2>1. \A i, j \in S : <<i, j>> \in R =>
          Cardinality(Below(S, R, i)) < Cardinality(Below(S, R, j))
    BY <1>2, <1>3, RanksAreNumbers
  <2> QED BY <1>4, <1>5, <2>1
<1>9. \A m \in 0..(Cardinality(S) - 1) : \E i \in S : Turn(items, i) = m
  BY <1>2, <1>3, <1>4, RanksAreNumbers
<1> QED BY <1>2, <1>6, <1>7, <1>8, <1>9 DEF S

LEMMA FirstOfGroup ==
  ASSUME NEW X, NEW items \in Seq(X), NEW i \in DOMAIN items
  PROVE  First(items, i) \in Nat /\ Group(items[First(items, i)]) = Group(items[i])
<1> DEFINE T == {j \in DOMAIN items : Group(items[j]) = Group(items[i])}
<1>1. T \subseteq Nat /\ i \in T
  OBVIOUS
<1>2. First(items, i) \in T
  <2>1. Min(T) \in T
    <3> HIDE DEF T
    <3> QED BY <1>1, SmallestIsLeast
  <2> QED BY <2>1 DEF First
<1> QED BY <1>1, <1>2

\* The rounds put the items of a sequence in a total order.
LEMMA RoundsInOrder ==
  ASSUME NEW X, NEW items \in Seq(X)
  PROVE  StrictTotal(DOMAIN items, Rounds(items))
<1> DEFINE D == DOMAIN items
           t(i) == Turn(items, i)
           f(i) == First(items, i)
<1>1. \A i \in D : t(i) \in Nat
  BY TurnsOfGroup DEF OfKey
<1>2. \A i \in D : f(i) \in Nat
  BY FirstOfGroup
<1>3. ASSUME NEW i \in D, NEW j \in D, i # j, t(i) = t(j)
      PROVE  f(i) # f(j)
  <2>1. SUFFICES ASSUME Group(items[i]) = Group(items[j]) PROVE FALSE
    BY FirstOfGroup
  <2>2. i \in OfKey(items, Group(items[i])) /\ j \in OfKey(items, Group(items[i]))
    BY <2>1 DEF OfKey
  <2>3. i < j \/ j < i
    BY <1>3
  <2> QED BY <1>1, <1>3, <2>2, <2>3, TurnsOfGroup
<1>4. \A i, j \in D : <<i, j>> \in Rounds(items) <=>
        t(i) < t(j) \/ (t(i) = t(j) /\ f(i) < f(j))
  BY DEF Rounds, ServedBefore
<1> HIDE DEF D, t, f
<1>5. \A i \in D : <<i, i>> \notin Rounds(items)
  BY <1>1, <1>2, <1>4
<1>6. \A i, j, k \in D : <<i, j>> \in Rounds(items) /\ <<j, k>> \in Rounds(items)
                           => <<i, k>> \in Rounds(items)
  BY <1>1, <1>2, <1>4
<1>7. \A i, j \in D : i # j => <<i, j>> \in Rounds(items) \/ <<j, i>> \in Rounds(items)
  BY <1>1, <1>2, <1>3, <1>4
<1> QED BY <1>5, <1>6, <1>7 DEF StrictTotal, D

Served(items) == Ranked(DOMAIN items, Rounds(items))

Cut(items, limit) ==
  IF limit <= 0 \/ limit > Len(items) THEN Len(items) ELSE limit

LEMMA ServedLists ==
  ASSUME NEW X, NEW items \in Seq(X), NEW limit \in Int
  PROVE  /\ Len(items) \in Nat /\ DOMAIN items = 1..Len(items)
         /\ Cut(items, limit) \in 0..Len(items)
         /\ FairOrder(items, limit) = [k \in 1..Cut(items, limit) |-> items[Served(items)[k]]]
         /\ \A k \in 1..Len(items) : Served(items)[k] \in 1..Len(items)
         /\ \A i \in 1..Len(items) : \E k \in 1..Len(items) : Served(items)[k] = i
         /\ \A k, l \in 1..Len(items) : Served(items)[k] = Served(items)[l] => k = l
         /\ \A k, l \in 1..Len(items) :
              <<Served(items)[k], Served(items)[l]>> \in Rounds(items) => k < l
<1>1. Len(items) \in Nat /\ DOMAIN items = 1..Len(items)
  OBVIOUS
<1>2. IsFiniteSet(1..Len(items)) /\ Cardinality(1..Len(items)) = Len(items)
  BY <1>1, FS_Interval
<1>3. StrictTotal(1..Len(items), Rounds(items))
  BY <1>1, RoundsInOrder
<1>4. Cut(items, limit) \in 0..Len(items)
  BY <1>1 DEF Cut
<1>5. FairOrder(items, limit) = [k \in 1..Cut(items, limit) |-> items[Served(items)[k]]]
  BY DEF FairOrder, Cut, Served
<1>6. Served(items) = Ranked(1..Len(items), Rounds(items))
  BY <1>1 DEF Served
<1>7. /\ \A k \in 1..Len(items) : Served(items)[k] \in 1..Len(items)
      /\ \A i \in 1..Len(items) : \E k \in 1..Len(items) : Served(items)[k] = i
      /\ \A k, l \in 1..Len(items) : Served(items)[k] = Served(items)[l] => k = l
      /\ \A k, l \in 1..Len(items) :
           <<Served(items)[k], Served(items)[l]>> \in Rounds(items) => k < l
  <2> DEFINE S == 1..Len(items)
             N == Len(items)
  <2>1. IsFiniteSet(S) /\ Cardinality(S) = N /\ StrictTotal(S, Rounds(items))
        /\ Served(items) = Ranked(S, Rounds(items)) /\ 1..N = S
    BY <1>2, <1>3, <1>6
  <2>2. 1..Cardinality(S) = S
    BY <2>1
  <2> HIDE DEF S, N
  <2>3. /\ \A k \in 1..Cardinality(S) : Served(items)[k] \in S
        /\ \A i \in S : \E k \in 1..Cardinality(S) : Served(items)[k] = i
        /\ \A k, l \in 1..Cardinality(S) : Served(items)[k] = Served(items)[l] => k = l
        /\ \A k, l \in 1..Cardinality(S) :
             <<Served(items)[k], Served(items)[l]>> \in Rounds(items) => k < l
    <3>1. Served(items) = Ranked(S, Rounds(items))
      BY <2>1
    <3> DEFINE R == Rounds(items)
    <3> HIDE DEF R
    <3>2. IsFiniteSet(S) /\ StrictTotal(S, R)
      BY <2>1 DEF R
    <3>3. /\ \A k \in 1..Cardinality(S) : Ranked(S, R)[k] \in S
          /\ \A i \in S : \E k \in 1..Cardinality(S) : Ranked(S, R)[k] = i
          /\ \A k, l \in 1..Cardinality(S) : Ranked(S, R)[k] = Ranked(S, R)[l] => k = l
          /\ \A k, l \in 1..Cardinality(S) : <<Ranked(S, R)[k], Ranked(S, R)[l]>> \in R => k < l
      BY <3>2, RankedLists
    <3> QED BY <3>1, <3>3 DEF R
  <2> QED BY <2>2, <2>3 DEF S
<1> QED BY <1>1, <1>4, <1>5, <1>7

\* FairOrder serves a group twice more than another only if that one has
\* nothing left.
LEMMA FairOrderBalanced ==
  ASSUME NEW X, NEW items \in Seq(X), NEW limit \in Int
  PROVE  Balanced(items, FairOrder(items, limit))
<1> DEFINE n == Cut(items, limit)
           s == Served(items)
           got == FairOrder(items, limit)
           A(g) == {k \in 1..n : Group(items[s[k]]) = g}
           t(i) == Turn(items, i)
<1>1. n \in 0..Len(items) /\ Len(items) \in Nat /\ DOMAIN items = 1..Len(items)
  BY ServedLists
<1>2. /\ \A k \in 1..Len(items) : s[k] \in 1..Len(items)
      /\ \A i \in 1..Len(items) : \E k \in 1..Len(items) : s[k] = i
      /\ \A k, l \in 1..Len(items) : s[k] = s[l] => k = l
      /\ \A k, l \in 1..Len(items) : <<s[k], s[l]>> \in Rounds(items) => k < l
  BY ServedLists
<1>3. got = [k \in 1..n |-> items[s[k]]]
  BY ServedLists
<1>4. ASSUME NEW g PROVE OfGroup(got, g) = Cardinality(A(g))
  <2>1. {k \in DOMAIN got : Group(got[k]) = g} = A(g)
    <3> HIDE DEF got, s, n
    <3> QED BY <1>3
  <2> QED BY <2>1 DEF OfGroup
<1>5. ASSUME NEW g PROVE OfGroup(items, g) = Cardinality(OfKey(items, g))
  BY DEF OfGroup, OfKey
<1>6. \A i, j \in 1..Len(items) : t(i) < t(j) => <<i, j>> \in Rounds(items)
  BY <1>1 DEF Rounds, ServedBefore
<1>7. \A i \in 1..Len(items) : t(i) \in Nat
  <2>1. \A i \in 1..Len(items) : i \in OfKey(items, Group(items[i]))
    BY <1>1 DEF OfKey
  <2> QED BY <2>1, TurnsOfGroup
<1> HIDE DEF n, s, got
<1>8. ASSUME NEW g
      PROVE  /\ IsFiniteSet(A(g)) /\ Cardinality(A(g)) \in Nat
             /\ \A k \in A(g) : k \in 1..Len(items) /\ s[k] \in OfKey(items, g)
             /\ Cardinality(A(g)) <= Cardinality(OfKey(items, g))
  <2>1. IsFiniteSet(1..n) /\ A(g) \subseteq 1..n
    BY <1>1, FS_Interval
  <2>2. IsFiniteSet(A(g))
    <3> HIDE DEF A
    <3> QED BY <2>1, FS_Subset
  <2>3. \A k \in A(g) : k \in 1..Len(items) /\ s[k] \in OfKey(items, g)
    <3> SUFFICES ASSUME NEW k \in A(g)
                 PROVE  k \in 1..Len(items) /\ s[k] \in OfKey(items, g)
      OBVIOUS
    <3>1. k \in 1..Len(items) /\ Group(items[s[k]]) = g
      BY <1>1
    <3>2. s[k] \in DOMAIN items
      BY <1>1, <1>2, <3>1
    <3> QED BY <3>1, <3>2 DEF OfKey
  <2> DEFINE served == [k \in A(g) |-> s[k]]
  <2>4. served \in Injection(A(g), OfKey(items, g))
    <3>1. served \in [A(g) -> OfKey(items, g)]
      BY <2>3
    <3>2. \A k, l \in A(g) : served[k] = served[l] => k = l
      BY <1>2, <2>3
    <3> HIDE DEF A
    <3> QED BY <3>1, <3>2 DEF Injection, IsInjective
  <2>5. IsFiniteSet(OfKey(items, g))
    BY TurnsOfGroup
  <2>6. Cardinality(A(g)) <= Cardinality(OfKey(items, g))
    <3> HIDE DEF A, served
    <3> QED BY <2>4, <2>5, FS_Injection
  <2>7. Cardinality(A(g)) \in Nat
    BY <2>2, FS_CardinalityType
  <2> QED BY <2>2, <2>3, <2>6, <2>7
<1> HIDE DEF A, t
\* A group that has something left has it among its first turns.
<1>9. ASSUME NEW g, Cardinality(A(g)) # Cardinality(OfKey(items, g))
      PROVE  \E l \in 1..Len(items) : l > n /\ t(s[l]) <= Cardinality(A(g))
  <2> DEFINE a == Cardinality(A(g))
             T == 0..a
  <2>1. a \in Nat /\ a \in 0..(Cardinality(OfKey(items, g)) - 1)
    BY <1>8, <1>9, TurnsOfGroup
  <2>2. PICK m \in T : ~ \E k \in A(g) : t(s[k]) = m
    <3> SUFFICES ASSUME \A m \in T : \E k \in A(g) : t(s[k]) = m PROVE FALSE
      OBVIOUS
    <3> DEFINE f == [m \in T |-> CHOOSE k \in A(g) : t(s[k]) = m]
    <3>1. \A m \in T : f[m] \in A(g) /\ t(s[f[m]]) = m
      OBVIOUS
    <3>2. f \in [T -> A(g)]
      BY <3>1
    <3> HIDE DEF f, T
    <3>3. f \in Injection(T, A(g))
      BY <3>1, <3>2 DEF Injection, IsInjective
    <3>4. Cardinality(T) <= a
      BY <1>8, <3>3, FS_Injection
    <3>5. Cardinality(T) = a + 1
      BY <2>1, FS_Interval DEF T
    <3> HIDE DEF a
    <3> QED BY <2>1, <3>4, <3>5
  <2>3. m \in 0..(Cardinality(OfKey(items, g)) - 1) /\ m <= a
    <3>1. Cardinality(OfKey(items, g)) \in Nat
      BY TurnsOfGroup
    <3> HIDE DEF a
    <3> QED BY <2>1, <2>2, <3>1
  <2>4. PICK i \in OfKey(items, g) : t(i) = m
    BY <2>3, TurnsOfGroup DEF t
  <2>5. i \in 1..Len(items) /\ Group(items[i]) = g
    BY <1>1 DEF OfKey
  <2>6. PICK l \in 1..Len(items) : s[l] = i
    BY <1>2, <2>5
  <2>7. l \notin 1..n
    BY <2>2, <2>4, <2>5, <2>6 DEF A
  <2> QED BY <1>1, <2>3, <2>4, <2>6, <2>7
\* A group that got many items got one of a late turn.
<1>10. ASSUME NEW h, NEW a \in Nat, Cardinality(A(h)) > a + 1
       PROVE  \E k \in A(h) : t(s[k]) > a
  <2> SUFFICES ASSUME \A k \in A(h) : t(s[k]) <= a PROVE FALSE
    <3>1. \A k \in A(h) : t(s[k]) \in Nat
      BY <1>2, <1>7, <1>8
    <3> QED BY <3>1
  <2> DEFINE T == 0..a
             f == [k \in A(h) |-> t(s[k])]
  <2>1. f \in [A(h) -> T]
    BY <1>2, <1>7, <1>8
  <2>2. ASSUME NEW k \in A(h), NEW l \in A(h), f[k] = f[l]
        PROVE  k = l
    <3>1. s[k] \in OfKey(items, h) /\ s[l] \in OfKey(items, h) /\ t(s[k]) = t(s[l])
      BY <1>8, <2>2
    <3>2. k \in 1..Len(items) /\ l \in 1..Len(items)
      BY <1>8
    <3>3. s[k] \in 1..Len(items) /\ s[l] \in 1..Len(items)
      BY <1>2, <3>2
    <3>4. t(s[k]) \in Nat
      BY <1>7, <3>3
    <3>5. \A i, j \in OfKey(items, h) : i < j => t(i) < t(j)
      BY TurnsOfGroup DEF t
    <3>6. ~(s[k] < s[l]) /\ ~(s[l] < s[k])
      BY <3>1, <3>4, <3>5
    <3>7. s[k] = s[l]
      BY <1>1, <3>3, <3>6
    <3> QED BY <1>2, <3>2, <3>7
  <2> HIDE DEF f
  <2>3. f \in Injection(A(h), T)
    BY <2>1, <2>2 DEF Injection, IsInjective
  <2>4. IsFiniteSet(T) /\ Cardinality(T) = a + 1
    BY FS_Interval
  <2>5. Cardinality(A(h)) <= Cardinality(T)
    <3> HIDE DEF T
    <3> QED BY <2>3, <2>4, FS_Injection
  <2>6. Cardinality(A(h)) \in Nat
    BY <1>8
  <2> HIDE DEF T
  <2> QED BY <1>10, <2>4, <2>5, <2>6
<1>11. ASSUME NEW g, NEW h, OfGroup(got, g) # OfGroup(items, g),
              ~(OfGroup(got, h) <= OfGroup(got, g) + 1)
       PROVE  FALSE
  <2> DEFINE a == Cardinality(A(g))
  <2>0. a \in Nat /\ Cardinality(A(h)) \in Nat
    BY <1>8
  <2>1. PICK l \in 1..Len(items) : l > n /\ t(s[l]) <= a
    BY <1>4, <1>5, <1>9, <1>11
  <2>2. Cardinality(A(h)) > a + 1
    BY <1>4, <1>11, <2>0
  <2> HIDE DEF a
  <2>3. PICK k \in A(h) : t(s[k]) > a
    BY <1>10, <2>0, <2>2
  <2>4. k \in 1..n /\ k \in 1..Len(items)
    BY <1>8 DEF A
  <2>5. t(s[l]) < t(s[k])
    <3>1. t(s[l]) \in Nat /\ t(s[k]) \in Nat
      BY <1>2, <1>7, <2>4
    <3> QED BY <2>0, <2>1, <2>3, <3>1
  <2>6. l < k
    BY <1>2, <1>6, <2>4, <2>5
  <2> QED BY <1>1, <2>1, <2>4, <2>6
<1> QED BY <1>11 DEF Balanced, got
-----------------------------------------------------------------------------
(* Sequences without repetition, as sets.                                  *)

LEMMA DistinctSequence ==
  ASSUME NEW X, NEW s \in Seq(X), Distinct(s)
  PROVE  IsFiniteSet(Range(s)) /\ Cardinality(Range(s)) = Len(s)
<1>1. s \in Bijection(1..Len(s), Range(s))
  BY DEF Distinct, Range, Bijection, Injection, Surjection, IsInjective
<1>2. IsFiniteSet(1..Len(s)) /\ Cardinality(1..Len(s)) = Len(s)
  <2>1. Len(s) \in Nat
    OBVIOUS
  <2> QED BY <2>1, FS_Interval
<1> QED BY <1>1, <1>2, FS_Bijection DEF ExistsBijection

InClass(S, name) == {x \in S : x.class = name}

LEMMA MembersCounted ==
  ASSUME NEW X, NEW s \in Seq(X), Distinct(s), NEW name
  PROVE  /\ IsFiniteSet(InClass(Range(s), name))
         /\ Cardinality(Members(s, name)) = Cardinality(InClass(Range(s), name))
<1> DEFINE M == Members(s, name)
           C == InClass(Range(s), name)
           f == [i \in M |-> s[i]]
<1>1. f \in [M -> C] /\ \A i, j \in M : f[i] = f[j] => i = j
  BY DEF Distinct, Range, InClass, Members
<1>2. \A x \in C : \E i \in M : f[i] = x
  BY DEF Range, InClass, Members
<1>3. M \subseteq 1..Len(s)
  BY DEF Members
<1>4. IsFiniteSet(1..Len(s))
  BY FS_Interval
<1> HIDE DEF M, C, f
<1>5. IsFiniteSet(M)
  BY <1>3, <1>4, FS_Subset
<1>6. f \in Bijection(M, C)
  BY <1>1, <1>2 DEF Bijection, Injection, Surjection, IsInjective
<1> QED BY <1>5, <1>6, FS_Bijection DEF ExistsBijection, M, C

LEMMA FairOrderLists ==
  ASSUME NEW X, NEW items \in Seq(X), NEW limit \in Int
  PROVE  /\ FairOrder(items, limit) \in Seq(X)
         /\ Len(FairOrder(items, limit)) = Cut(items, limit)
         /\ Range(FairOrder(items, limit)) \subseteq Range(items)
         /\ Cut(items, limit) = Len(items) =>
              Range(FairOrder(items, limit)) = Range(items)
         /\ Distinct(items) => Distinct(FairOrder(items, limit))
<1> DEFINE n == Cut(items, limit)
           s == Served(items)
           out == FairOrder(items, limit)
<1>1. n \in 0..Len(items) /\ Len(items) \in Nat /\ DOMAIN items = 1..Len(items)
  BY ServedLists
<1>2. /\ \A k \in 1..Len(items) : s[k] \in 1..Len(items)
      /\ \A i \in 1..Len(items) : \E k \in 1..Len(items) : s[k] = i
      /\ \A k, l \in 1..Len(items) : s[k] = s[l] => k = l
  BY ServedLists
<1>3. out = [k \in 1..n |-> items[s[k]]]
  BY ServedLists
<1> HIDE DEF n, s, out
<1>4. \A k \in 1..n : s[k] \in 1..Len(items) /\ k \in 1..Len(items)
  BY <1>1, <1>2
<1>5. out \in Seq(X) /\ Len(out) = n /\ DOMAIN out = 1..n
  BY <1>1, <1>3, <1>4
<1>6. Range(out) \subseteq Range(items)
  BY <1>1, <1>3, <1>4, <1>5 DEF Range
<1>7. n = Len(items) => Range(items) \subseteq Range(out)
  <2> SUFFICES ASSUME n = Len(items), NEW i \in 1..Len(items)
               PROVE  \E k \in 1..n : out[k] = items[i]
    BY <1>1, <1>5 DEF Range
  <2> QED BY <1>2, <1>3
<1>8. Distinct(items) => Distinct(out)
  <2> SUFFICES ASSUME Distinct(items), NEW k \in 1..n, NEW l \in 1..n, out[k] = out[l]
               PROVE  k = l
    BY <1>5 DEF Distinct
  <2>1. s[k] \in DOMAIN items /\ s[l] \in DOMAIN items /\ items[s[k]] = items[s[l]]
    BY <1>1, <1>3, <1>4
  <2>2. s[k] = s[l]
    BY <2>1 DEF Distinct
  <2> QED BY <1>2, <1>4, <2>2
<1> QED BY <1>5, <1>6, <1>7, <1>8 DEF out, n

LEMMA OfClassLists ==
  ASSUME NEW X, NEW items \in Seq(X), NEW name
  PROVE  /\ OfClass(items, name) \in Seq(X)
         /\ Range(OfClass(items, name)) = InClass(Range(items), name)
         /\ Distinct(items) => Distinct(OfClass(items, name))
<1> DEFINE M == Members(items, name)
           R == {p \in M \X M : p[1] < p[2]}
           r == Ranked(M, R)
           n == Cardinality(M)
           out == OfClass(items, name)
<1>1. M \subseteq 1..Len(items) /\ M \subseteq Int /\ DOMAIN items = 1..Len(items)
  BY DEF Members
<1>2. IsFiniteSet(M)
  <2>1. IsFiniteSet(1..Len(items))
    BY FS_Interval
  <2> HIDE DEF M
  <2> QED BY <1>1, <2>1, FS_Subset
<1>3. StrictTotal(M, R)
  <2> HIDE DEF M
  <2> QED BY <1>1, NumbersInOrder
<1>4. out = [k \in DOMAIN r |-> items[r[k]]]
  BY DEF OfClass
<1>5. \A i : i \in M <=> i \in 1..Len(items) /\ items[i].class = name
  BY <1>1 DEF Members
<1> HIDE DEF M, R
<1>6. /\ n \in Nat /\ DOMAIN r = 1..n
      /\ \A k \in 1..n : r[k] \in M
      /\ \A i \in M : \E k \in 1..n : r[k] = i
      /\ \A k, l \in 1..n : r[k] = r[l] => k = l
  BY <1>2, <1>3, RankedLists
<1> HIDE DEF r, n, out
<1>7. out = [k \in 1..n |-> items[r[k]]] /\ \A k \in 1..n : r[k] \in 1..Len(items)
  BY <1>4, <1>5, <1>6
<1>8. out \in Seq(X) /\ Len(out) = n /\ DOMAIN out = 1..n
  BY <1>6, <1>7
<1>9. Range(out) \subseteq InClass(Range(items), name)
  <2> SUFFICES ASSUME NEW k \in 1..n
               PROVE  out[k] \in Range(items) /\ out[k].class = name
    BY <1>8 DEF Range, InClass
  <2> QED BY <1>1, <1>5, <1>6, <1>7 DEF Range
<1>10. InClass(Range(items), name) \subseteq Range(out)
  <2> SUFFICES ASSUME NEW i \in 1..Len(items), items[i].class = name
               PROVE  \E k \in 1..n : out[k] = items[i]
    BY <1>1, <1>8 DEF Range, InClass
  <2> QED BY <1>5, <1>6, <1>7
<1>11. Distinct(items) => Distinct(out)
  <2> SUFFICES ASSUME Distinct(items), NEW k \in 1..n, NEW l \in 1..n, out[k] = out[l]
               PROVE  k = l
    BY <1>8 DEF Distinct
  <2>1. r[k] \in DOMAIN items /\ r[l] \in DOMAIN items /\ items[r[k]] = items[r[l]]
    BY <1>1, <1>7
  <2>2. r[k] = r[l]
    BY <2>1 DEF Distinct
  <2> QED BY <1>6, <2>2
<1> QED BY <1>8, <1>9, <1>10, <1>11 DEF out

LEMMA Joined ==
  ASSUME NEW X, NEW s \in Seq(X), NEW t \in Seq(X), Distinct(s), Distinct(t),
         Range(s) \cap Range(t) = {}
  PROVE  /\ s \o t \in Seq(X) /\ Len(s \o t) = Len(s) + Len(t)
         /\ Range(s \o t) = Range(s) \cup Range(t)
         /\ Distinct(s \o t)
<1>1. /\ s \o t \in Seq(X) /\ Len(s \o t) = Len(s) + Len(t)
      /\ DOMAIN (s \o t) = 1..(Len(s) + Len(t))
      /\ \A i \in 1..(Len(s) + Len(t)) :
           (s \o t)[i] = IF i <= Len(s) THEN s[i] ELSE t[i - Len(s)]
  OBVIOUS
<1> DEFINE u == s \o t
           m == Len(s)
           n == Len(t)
<1>2. m \in Nat /\ n \in Nat /\ DOMAIN s = 1..m /\ DOMAIN t = 1..n /\ DOMAIN u = 1..(m + n)
  OBVIOUS
<1>3. \A i \in 1..(m + n) : u[i] = IF i <= m THEN s[i] ELSE t[i - m]
  BY <1>1
<1> HIDE DEF u, m, n
<1>4. \A i \in 1..m : i \in 1..(m + n) /\ u[i] = s[i]
  BY <1>2, <1>3
<1>5. \A i \in 1..n : i + m \in 1..(m + n) /\ u[i + m] = t[i]
  BY <1>2, <1>3
<1>6. \A i \in 1..(m + n) : (i \in 1..m /\ u[i] = s[i]) \/ (i - m \in 1..n /\ u[i] = t[i - m])
  BY <1>2, <1>3
<1>7. Range(u) = Range(s) \cup Range(t)
  <2>1. ASSUME NEW i \in 1..(m + n) PROVE u[i] \in Range(s) \cup Range(t)
    BY <1>2, <1>6 DEF Range
  <2>2. ASSUME NEW i \in 1..m PROVE s[i] \in Range(u)
    BY <1>2, <1>4 DEF Range
  <2>3. ASSUME NEW i \in 1..n PROVE t[i] \in Range(u)
    BY <1>2, <1>5 DEF Range
  <2>4. Range(u) \subseteq Range(s) \cup Range(t)
    BY <1>2, <2>1 DEF Range
  <2>5. Range(s) \subseteq Range(u) /\ Range(t) \subseteq Range(u)
    BY <1>2, <2>2, <2>3 DEF Range
  <2> QED BY <2>4, <2>5
<1>8. Distinct(u)
  <2> SUFFICES ASSUME NEW i \in 1..(m + n), NEW j \in 1..(m + n), u[i] = u[j]
               PROVE  i = j
    BY <1>2 DEF Distinct
  <2>1. \A k \in 1..m, l \in 1..n : s[k] # t[l]
    BY <1>2 DEF Range
  <2>2. \A k, l \in 1..m : s[k] = s[l] => k = l
    BY <1>2 DEF Distinct
  <2>3. \A k, l \in 1..n : t[k] = t[l] => k = l
    BY <1>2 DEF Distinct
  <2> QED BY <1>2, <1>6, <2>1, <2>2, <2>3
<1> QED BY <1>1, <1>7, <1>8 DEF u

LEMMA Split ==
  ASSUME NEW X, NEW s \in Seq(X), Distinct(s), NEW n \in 0..Len(s)
  PROVE  LET front == SubSeq(s, 1, n)
             rest == SubSeq(s, n + 1, Len(s))
         IN  /\ front \in Seq(X) /\ Len(front) = n /\ Distinct(front)
             /\ rest \in Seq(X) /\ Distinct(rest)
             /\ Range(front) \cap Range(rest) = {}
             /\ Range(front) \cup Range(rest) = Range(s)
<1> DEFINE m == Len(s)
           front == SubSeq(s, 1, n)
           rest == SubSeq(s, n + 1, m)
<1>1. front \in Seq(X) /\ Len(front) = n /\ DOMAIN front = 1..n
      /\ \A i \in 1..n : front[i] = s[i]
  OBVIOUS
<1>2. rest \in Seq(X) /\ DOMAIN rest = 1..(m - n)
      /\ \A i \in 1..(m - n) : rest[i] = s[i + n]
  OBVIOUS
<1>3. m \in Nat /\ DOMAIN s = 1..m /\ n \in 0..m
  OBVIOUS
<1> HIDE DEF front, rest, m
<1>4. /\ \A i \in 1..n : i \in 1..m
      /\ \A i \in 1..(m - n) : i + n \in 1..m /\ i + n \notin 1..n
      /\ \A i, j \in 1..m : s[i] = s[j] => i = j
  BY <1>3 DEF Distinct
<1>5. Distinct(front)
  BY <1>1, <1>4 DEF Distinct
<1>6. Distinct(rest)
  <2> SUFFICES ASSUME NEW i \in 1..(m - n), NEW j \in 1..(m - n), rest[i] = rest[j]
               PROVE  i = j
    BY <1>2 DEF Distinct
  <2>1. i + n = j + n
    BY <1>2, <1>4
  <2> QED BY <1>3, <2>1
<1>7. ASSUME NEW i \in 1..n, NEW j \in 1..(m - n) PROVE front[i] # rest[j]
  BY <1>1, <1>2, <1>4
<1>8. Range(front) \cap Range(rest) = {}
  BY <1>1, <1>2, <1>7 DEF Range
<1>9. Range(s) \subseteq Range(front) \cup Range(rest)
  <2> SUFFICES ASSUME NEW i \in 1..m PROVE s[i] \in Range(front) \cup Range(rest)
    BY <1>3 DEF Range
  <2>1. i \in 1..n \/ (i - n \in 1..(m - n) /\ (i - n) + n = i)
    BY <1>3
  <2> QED BY <1>1, <1>2, <2>1 DEF Range
<1>10. Range(front) \subseteq Range(s) /\ Range(rest) \subseteq Range(s)
  <2>1. ASSUME NEW i \in 1..n PROVE front[i] \in Range(s)
    BY <1>1, <1>3, <1>4 DEF Range
  <2>2. ASSUME NEW i \in 1..(m - n) PROVE rest[i] \in Range(s)
    BY <1>2, <1>3, <1>4 DEF Range
  <2> QED BY <1>1, <1>2, <2>1, <2>2 DEF Range
<1> QED BY <1>1, <1>2, <1>5, <1>6, <1>8, <1>9, <1>10 DEF front, rest, m
-----------------------------------------------------------------------------
(* QuotaFairOrder.                                                         *)

LEMMA SmallestOfThree ==
  ASSUME NEW a \in Int, NEW b \in Int, NEW c \in Int
  PROVE  LET m == Min({a, b, c})
         IN  m \in {a, b, c} /\ m <= a /\ m <= b /\ m <= c
<1>1. \E x \in {a, b, c} : \A y \in {a, b, c} : x <= y
  OBVIOUS
<1> QED BY <1>1 DEF Min

LEMMA NotNegative ==
  ASSUME NEW a \in Int
  PROVE  Max({a, 0}) = IF a < 0 THEN 0 ELSE a
<1>1. \E x \in {a, 0} : \A y \in {a, 0} : x >= y
  OBVIOUS
<1> QED BY <1>1 DEF Max

LEMMA UnitsFinite ==
  ASSUME NEW f, NEW S, IsFiniteSet(S), \A x \in S : f[x] \in Int
  PROVE  IsFiniteSet(Units(f, S)) /\ Tally(f, S) \in Nat
<1> DEFINE h == [x \in S |-> {x} \X (1..f[x])]
           T == {{x} \X (1..f[x]) : x \in S}
<1>1. h \in [S -> T] /\ \A u \in T : \E x \in S : h[x] = u
  OBVIOUS
<1>2. ASSUME NEW u \in T PROVE IsFiniteSet(u)
  <2>1. PICK x \in S : u = {x} \X (1..f[x])
    OBVIOUS
  <2>2. IsFiniteSet({x})
    BY FS_Singleton
  <2>3. IsFiniteSet(1..f[x])
    BY FS_Interval
  <2> QED BY <2>1, <2>2, <2>3, FS_Product
<1>3. Units(f, S) = UNION T
  BY DEF Units
<1> HIDE DEF h, T
<1>4. h \in Surjection(S, T)
  BY <1>1 DEF Surjection
<1>5. IsFiniteSet(T)
  BY <1>4, FS_Surjection
<1>6. IsFiniteSet(Units(f, S))
  BY <1>2, <1>3, <1>5, FS_UNION
<1> QED BY <1>6, FS_CardinalityType DEF Tally

LEMMA FewerUnits ==
  ASSUME NEW f, NEW S, IsFiniteSet(S), \A x \in S : f[x] \in Int,
         NEW T \in SUBSET S
  PROVE  Tally(f, T) <= Tally(f, S)
<1>1. Units(f, T) \subseteq Units(f, S)
  BY DEF Units
<1> QED BY <1>1, UnitsFinite, FS_Subset DEF Tally

LEMMA OneMore ==
  ASSUME NEW f, NEW S, IsFiniteSet(S), \A x \in S : f[x] \in Int,
         NEW y, y \notin S, f[y] \in Int
  PROVE  Tally(f, S \cup {y}) = Tally(f, S) + (IF f[y] < 0 THEN 0 ELSE f[y])
<1> DEFINE U == Units(f, S)
           V == {y} \X (1..f[y])
           n == IF f[y] < 0 THEN 0 ELSE f[y]
<1>1. Units(f, S \cup {y}) = U \cup V
  BY DEF Units
<1>2. U \cap V = {}
  BY DEF Units
<1>3. IsFiniteSet(U) /\ Cardinality(U) \in Nat
  BY UnitsFinite, FS_CardinalityType
<1>4. IsFiniteSet(V) /\ Cardinality(V) = n
  <2>1. IsFiniteSet({y}) /\ Cardinality({y}) = 1
    BY FS_Singleton
  <2>2. IsFiniteSet(1..f[y]) /\ Cardinality(1..f[y]) = n
    BY FS_Interval
  <2>3. n \in Nat
    OBVIOUS
  <2> HIDE DEF n
  <2> DEFINE A == {y}
             B == 1..f[y]
  <2>4. IsFiniteSet(A) /\ IsFiniteSet(B) /\ Cardinality(A) = 1 /\ Cardinality(B) = n
    BY <2>1, <2>2
  <2> HIDE DEF A, B
  <2>5. IsFiniteSet(A \X B) /\ Cardinality(A \X B) = Cardinality(A) * Cardinality(B)
    BY <2>4, FS_Product
  <2>6. Cardinality(A \X B) = n
    BY <2>3, <2>4, <2>5
  <2> QED BY <2>5, <2>6 DEF A, B
<1> HIDE DEF U, V
<1>5. Cardinality(U \cup V) = Cardinality(U) + Cardinality(V)
  <2>1. Cardinality(U \cap V) = 0
    BY <1>2, FS_EmptySet
  <2>2. Cardinality(V) \in Nat
    BY <1>4, FS_CardinalityType
  <2> QED BY <1>3, <1>4, <2>1, <2>2, FS_Union
<1> QED BY <1>1, <1>4, <1>5 DEF Tally, U

Handled == {call.order[k] : k \in 1..class}

QuotasFit == Tally(call.quotas, DOMAIN call.quotas) <= call.limit

\* Each of the classes has its quota, or all of its items.
Shares(got, names) ==
  \A c \in names \cap DOMAIN call.quotas :
    \/ Cardinality(InClass(Range(got), c)) >= call.quotas[c]
    \/ InClass(Range(call.items), c) \subseteq Range(got)

\* The classes handled so far are split between what was selected and what
\* remains, and no more was selected than their quotas allow.
FairOpen ==
  /\ call.limit > 0
  /\ class \in 0..Len(call.order)
  /\ Handled \subseteq listed
  /\ class < Len(call.order) => listed = Handled
  /\ remaining \in Seq(Range(call.items)) /\ Distinct(remaining)
  /\ Range(selected) \cap Range(remaining) = {}
  /\ Range(selected) \cup Range(remaining) = {x \in Range(call.items) : x.class \in listed}
  /\ Len(selected) <= Bound
  /\ Len(selected) <= Tally(call.quotas, Handled \cap DOMAIN call.quotas)
  /\ QuotasFit => Shares(selected, Handled)

FairClosed ==
  /\ Len(selected) = (IF call.limit <= 0 THEN 0 ELSE Bound)
  /\ call.limit > 0 /\ QuotasFit => Shares(selected, Range(call.order))

FairInv ==
  /\ call \in Calls /\ returned \in BOOLEAN
  /\ selected \in Seq(Range(call.items)) /\ Distinct(selected)
  /\ ~returned => FairOpen
  /\ returned => FairClosed

\* What the assumption says of the call, and the numbers of a state.
LEMMA CallFacts ==
  ASSUME call \in Calls
  PROVE  /\ call.items \in Seq(Range(call.items)) /\ Distinct(call.items)
         /\ call.order \in Seq(Range(call.order)) /\ Distinct(call.order)
         /\ call.limit \in Int /\ \A n \in DOMAIN call.quotas : call.quotas[n] \in Int
         /\ IsFiniteSet(DOMAIN call.quotas)
         /\ Len(call.items) \in Nat /\ Bound \in Int
         /\ IsFiniteSet(Range(call.items))
         /\ Cardinality(Range(call.items)) = Len(call.items)
<1>1. /\ call.items \in Seq(Range(call.items)) /\ Distinct(call.items)
      /\ call.order \in Seq(Range(call.order)) /\ Distinct(call.order)
      /\ call.limit \in Int /\ \A n \in DOMAIN call.quotas : call.quotas[n] \in Int
      /\ IsFiniteSet(DOMAIN call.quotas)
  BY CallAssumption
<1>2. Len(call.items) \in Nat
  BY <1>1
<1>3. Bound \in Int
  BY <1>1, <1>2 DEF Bound
<1>4. IsFiniteSet(Range(call.items)) /\ Cardinality(Range(call.items)) = Len(call.items)
  BY <1>1, DistinctSequence
<1> QED BY <1>1, <1>2, <1>3, <1>4

LEMMA FairInitInv == FairInit => FairInv
<1> SUFFICES ASSUME FairInit PROVE FairInv
  OBVIOUS
<1> USE DEF FairInit
<1>1. call \in Calls
  OBVIOUS
<1>2. call.limit \in Int /\ call.order \in Seq(Range(call.order))
      /\ Len(call.items) \in Nat /\ call.items \in Seq(Range(call.items))
  BY <1>1, CallFacts
<1>3. /\ selected \in Seq(Range(call.items)) /\ Distinct(selected) /\ Range(selected) = {}
      /\ remaining \in Seq(Range(call.items)) /\ Distinct(remaining) /\ Range(remaining) = {}
      /\ Len(selected) = 0
  BY DEF Distinct, Range
<1>4. Handled = {} /\ class = 0
  BY DEF Handled
<1>5. CASE call.limit <= 0
  <2>1. returned = TRUE
    BY <1>5
  <2> QED BY <1>1, <1>2, <1>3, <1>5, <2>1 DEF FairInv, FairClosed
<1>6. CASE call.limit > 0 /\ call.items = <<>>
  <2>1. returned = TRUE
    BY <1>6
  <2>2. Bound = 0 /\ Range(call.items) = {}
    BY <1>6 DEF Bound, Range
  <2>3. Shares(selected, Range(call.order))
    BY <2>2 DEF Shares, InClass
  <2> QED BY <1>1, <1>2, <1>3, <1>6, <2>1, <2>2, <2>3 DEF FairInv, FairClosed
<1>7. CASE call.limit > 0 /\ call.items # <<>>
  <2>1. returned = FALSE
    <3>1. ~(call.limit <= 0 \/ call.items = <<>>)
      BY <1>2, <1>7
    <3> QED BY <3>1, Zenon
  <2>2. Bound >= 0
    BY <1>2, <1>7 DEF Bound
  <2>3. Tally(call.quotas, Handled \cap DOMAIN call.quotas) >= 0
    BY <1>1, <1>4, CallFacts, UnitsFinite, FS_EmptySet
  <2>4. Shares(selected, Handled)
    BY <1>4 DEF Shares
  <2>5. Range(selected) \cup Range(remaining) = {x \in Range(call.items) : x.class \in listed}
    BY <1>3
  <2>6. FairOpen
    BY <1>2, <1>3, <1>4, <1>7, <2>2, <2>3, <2>4, <2>5 DEF FairOpen
  <2> QED BY <1>1, <1>3, <2>1, <2>6 DEF FairInv
<1> QED BY <1>2, <1>5, <1>6, <1>7

\* Selecting more takes no share away.
LEMMA SharesGrow ==
  ASSUME call \in Calls, NEW names, NEW got, Shares(got, names),
         NEW X, NEW longer \in Seq(X), Distinct(longer), Range(got) \subseteq Range(longer)
  PROVE  Shares(longer, names)
<1> SUFFICES ASSUME NEW c \in names \cap DOMAIN call.quotas,
                    ~(InClass(Range(call.items), c) \subseteq Range(longer))
             PROVE  Cardinality(InClass(Range(longer), c)) >= call.quotas[c]
  BY DEF Shares
<1> DEFINE A == InClass(Range(got), c)
           B == InClass(Range(longer), c)
<1>1. Cardinality(A) >= call.quotas[c]
  BY DEF Shares
<1>2. IsFiniteSet(B)
  BY MembersCounted
<1>3. A \subseteq B
  BY DEF InClass
<1> HIDE DEF A, B
<1>4. IsFiniteSet(A) /\ Cardinality(A) <= Cardinality(B)
  BY <1>2, <1>3, FS_Subset
<1>5. Cardinality(A) \in Nat /\ Cardinality(B) \in Nat
  BY <1>2, <1>4, FS_CardinalityType
<1>6. call.quotas[c] \in Int
  BY CallFacts
<1> QED BY <1>1, <1>4, <1>5, <1>6 DEF B

LEMMA InvReserve == FairInv /\ Reserve => FairInv'
<1> SUFFICES ASSUME FairInv, Reserve PROVE FairInv'
  OBVIOUS
<1> DEFINE X == Range(call.items)
           Q == DOMAIN call.quotas
           name == call.order[class + 1]
           ordered == FairOrder(OfClass(call.items, name), 0)
           quota == Quota(name, ordered)
           front == SubSeq(ordered, 1, quota)
           rest == SubSeq(ordered, quota + 1, Len(ordered))
<1>1. call \in Calls /\ ~returned /\ class < Len(call.order) /\ FairOpen
      /\ selected \in Seq(X) /\ Distinct(selected)
  BY DEF FairInv, Reserve
<1>2. /\ selected' = selected \o front /\ remaining' = remaining \o rest
      /\ listed' = listed \cup {name} /\ class' = class + 1
      /\ call' = call /\ returned' = returned
  BY DEF Reserve
<1>3. /\ call.items \in Seq(X) /\ Distinct(call.items)
      /\ call.order \in Seq(Range(call.order))
      /\ call.limit \in Int /\ \A n \in Q : call.quotas[n] \in Int
      /\ IsFiniteSet(Q) /\ Len(call.items) \in Nat /\ Bound \in Int
      /\ IsFiniteSet(X) /\ Cardinality(X) = Len(call.items)
  BY <1>1, CallFacts
<1>4. /\ name \notin listed /\ listed = Handled
      /\ ordered \in Seq(X) /\ Distinct(ordered)
      /\ Range(ordered) = InClass(X, name)
      /\ quota \in 0..Len(ordered) /\ quota <= Bound - Len(selected)
      /\ quota <= (IF name \in Q
                   THEN IF call.quotas[name] < 0 THEN 0 ELSE call.quotas[name]
                   ELSE 0)
      /\ \/ quota = Len(ordered) \/ quota = Bound - Len(selected)
         \/ name \in Q /\ quota >= call.quotas[name]
         \/ name \notin Q
      /\ front \in Seq(X) /\ Distinct(front) /\ Len(front) = quota
      /\ rest \in Seq(X) /\ Distinct(rest)
      /\ Range(front) \cap Range(rest) = {}
      /\ Range(front) \cup Range(rest) = Range(ordered)
      /\ Range(ordered) \cap (Range(selected) \cup Range(remaining)) = {}
  <2>1. /\ name = call.order[class + 1]
        /\ ordered = FairOrder(OfClass(call.items, name), 0)
        /\ quota = Quota(name, ordered)
        /\ front = SubSeq(ordered, 1, quota)
        /\ rest = SubSeq(ordered, quota + 1, Len(ordered))
    OBVIOUS
  <2> HIDE DEF name, ordered, quota, front, rest
  <2>2. call \in Calls /\ ~returned /\ class < Len(call.order) /\ FairOpen
        /\ selected \in Seq(X)
    BY DEF FairInv, Reserve
  <2>3. /\ call.items \in Seq(X) /\ Distinct(call.items)
        /\ call.order \in Seq(Range(call.order)) /\ Distinct(call.order)
        /\ call.limit \in Int /\ \A n \in DOMAIN call.quotas : call.quotas[n] \in Int
        /\ Bound \in Int
    BY <2>2, CallFacts
  <2>4. class \in Nat /\ Len(call.order) \in Nat /\ DOMAIN call.order = 1..Len(call.order)
    BY <2>2, <2>3 DEF FairOpen
  <2>5. listed = Handled /\ name \notin listed
    <3>1. listed = Handled
      BY <2>2 DEF FairOpen
    <3>2. ASSUME NEW k \in 1..class PROVE call.order[k] # name
      <4>1. k \in DOMAIN call.order /\ class + 1 \in DOMAIN call.order /\ k # class + 1
        BY <2>2, <2>4
      <4> QED BY <2>1, <2>3, <4>1 DEF Distinct
    <3> QED BY <3>1, <3>2 DEF Handled
  <2>6. /\ OfClass(call.items, name) \in Seq(X)
        /\ Range(OfClass(call.items, name)) = InClass(X, name)
        /\ Distinct(OfClass(call.items, name))
    BY <2>3, OfClassLists
  <2>7. ordered \in Seq(X) /\ Distinct(ordered) /\ Range(ordered) = InClass(X, name)
    <3>1. Cut(OfClass(call.items, name), 0) = Len(OfClass(call.items, name))
      BY DEF Cut
    <3> QED BY <2>1, <2>6, <3>1, FairOrderLists
  <2>8. Len(ordered) \in Nat /\ Len(selected) \in Nat /\ Bound - Len(selected) \in Nat
    BY <2>2, <2>3, <2>7 DEF FairOpen
  <2> DEFINE q == IF name \in DOMAIN call.quotas THEN Max({call.quotas[name], 0}) ELSE 0
  <2>9. q \in Nat
        /\ q = IF name \in DOMAIN call.quotas
               THEN IF call.quotas[name] < 0 THEN 0 ELSE call.quotas[name] ELSE 0
    BY <2>3, NotNegative
  <2>10. quota = Min({q, Bound - Len(selected), Len(ordered)})
    BY <2>1 DEF Quota
  <2> DEFINE room == Bound - Len(selected)
  <2>11. quota \in {q, room, Len(ordered)} /\ quota <= q /\ quota <= room
         /\ quota <= Len(ordered)
    <3>1. room \in Int /\ q \in Int /\ Len(ordered) \in Int
      BY <2>8, <2>9
    <3>2. quota = Min({q, room, Len(ordered)})
      BY <2>10
    <3> DEFINE l == Len(ordered)
    <3> HIDE DEF q, room, l
    <3>3. LET m == Min({q, room, l}) IN m \in {q, room, l} /\ m <= q /\ m <= room /\ m <= l
      BY <3>1, SmallestOfThree DEF l
    <3> QED BY <3>2, <3>3 DEF l
  <2>12. quota \in 0..Len(ordered)
    <3> HIDE DEF q
    <3> QED BY <2>8, <2>9, <2>11
  <2>13. \/ quota = Len(ordered) \/ quota = Bound - Len(selected)
         \/ name \in DOMAIN call.quotas /\ quota >= call.quotas[name]
         \/ name \notin DOMAIN call.quotas
    BY <2>3, <2>9, <2>11
  <2>14. /\ front \in Seq(X) /\ Distinct(front) /\ Len(front) = quota
         /\ rest \in Seq(X) /\ Distinct(rest)
         /\ Range(front) \cap Range(rest) = {}
         /\ Range(front) \cup Range(rest) = Range(ordered)
    BY <2>1, <2>7, <2>12, Split
  <2>15. Range(ordered) \cap (Range(selected) \cup Range(remaining)) = {}
    BY <2>2, <2>5, <2>7 DEF FairOpen, InClass
  <2> QED BY <2>5, <2>7, <2>9, <2>11, <2>12, <2>13, <2>14, <2>15
<1>5. /\ call.limit > 0 /\ class \in 0..Len(call.order)
      /\ remaining \in Seq(X) /\ Distinct(remaining)
      /\ Range(selected) \cap Range(remaining) = {}
      /\ Range(selected) \cup Range(remaining) = {x \in X : x.class \in listed}
      /\ Len(selected) <= Tally(call.quotas, Handled \cap Q)
      /\ QuotasFit => Shares(selected, Handled)
  BY <1>1 DEF FairOpen
<1> HIDE DEF X, Q, name, ordered, quota, front, rest
<1>6. Len(selected) \in Nat /\ Len(call.order) \in Nat /\ Len(ordered) \in Nat /\ quota \in Nat
  BY <1>1, <1>3, <1>4
<1>7. /\ selected' \in Seq(X) /\ Distinct(selected') /\ Len(selected') = Len(selected) + quota
      /\ Range(selected') = Range(selected) \cup Range(front)
  <2>1. Range(selected) \cap Range(front) = {}
    BY <1>4
  <2>2. /\ selected \o front \in Seq(X) /\ Len(selected \o front) = Len(selected) + Len(front)
        /\ Range(selected \o front) = Range(selected) \cup Range(front)
        /\ Distinct(selected \o front)
    BY <1>1, <1>4, <2>1, Joined
  <2> QED BY <1>2, <1>4, <2>2
<1>8. /\ remaining' \in Seq(X) /\ Distinct(remaining')
      /\ Range(remaining') = Range(remaining) \cup Range(rest)
  <2>1. Range(remaining) \cap Range(rest) = {}
    BY <1>4
  <2> QED BY <1>2, <1>4, <1>5, <2>1, Joined
<1>9. Range(selected') \cap Range(remaining') = {}
  BY <1>4, <1>5, <1>7, <1>8
<1>10. Range(selected') \cup Range(remaining') = {x \in X : x.class \in listed'}
  <2>1. InClass(X, name) = {x \in X : x.class = name}
    BY DEF InClass
  <2> QED BY <1>2, <1>4, <1>5, <1>7, <1>8, <2>1
<1>11. Handled' = Handled \cup {name} /\ listed' = Handled'
  <2>1. 1..(class + 1) = (1..class) \cup {class + 1}
    BY <1>5, <1>6
  <2>2. Handled' = {call.order[k] : k \in 1..(class + 1)}
    BY <1>2 DEF Handled
  <2>3. Handled' = {call.order[k] : k \in 1..class} \cup {call.order[class + 1]}
    BY <2>1, <2>2
  <2> QED BY <1>2, <1>4, <2>3 DEF Handled, name
<1>12. Len(selected') <= Tally(call.quotas, Handled' \cap Q)
  <2> DEFINE H == Handled \cap Q
  <2>1. IsFiniteSet(H) /\ name \notin H /\ \A n \in H : call.quotas[n] \in Int
    <3>1. H \subseteq Q /\ name \notin H
      BY <1>4
    <3> HIDE DEF H
    <3> QED BY <1>3, <3>1, FS_Subset
  <2>2. Tally(call.quotas, H) \in Nat
    <3> HIDE DEF H
    <3> QED BY <2>1, UnitsFinite
  <2> DEFINE T == Tally(call.quotas, H)
  <2>0. Len(selected') <= T + quota /\ T \in Nat
    BY <1>5, <1>6, <1>7, <2>2
  <2> HIDE DEF T
  <2>3. CASE name \in Q
    <3>1. Handled' \cap Q = H \cup {name}
      BY <1>11, <2>3
    <3>2. call.quotas[name] \in Int
      BY <1>3, <2>3
    <3> HIDE DEF H
    <3> DEFINE d == IF call.quotas[name] < 0 THEN 0 ELSE call.quotas[name]
    <3>3. Tally(call.quotas, H \cup {name}) = Tally(call.quotas, H) + d
      BY <2>1, <3>2, OneMore
    <3>4. quota <= d /\ d \in Nat
      BY <1>4, <2>3, <3>2
    <3>5. Len(selected') \in Nat
      BY <1>6, <1>7
    <3> HIDE DEF d
    <3>6. Tally(call.quotas, Handled' \cap Q) = T + d
      BY <3>1, <3>3 DEF T
    <3> QED BY <1>6, <2>0, <3>4, <3>5, <3>6
  <2>4. CASE name \notin Q
    <3>1. Handled' \cap Q = H
      BY <1>11, <2>4
    <3>2. quota <= 0
      BY <1>4, <2>4
    <3>3. Len(selected') \in Nat
      BY <1>6, <1>7
    <3>4. Tally(call.quotas, Handled' \cap Q) = T
      BY <3>1 DEF T
    <3> QED BY <1>6, <2>0, <3>2, <3>3, <3>4
  <2> QED BY <2>3, <2>4
<1>13. Tally(call.quotas, Handled' \cap Q) <= Tally(call.quotas, Q)
       /\ Tally(call.quotas, Handled' \cap Q) \in Nat /\ Tally(call.quotas, Q) \in Nat
  <2> DEFINE H == Handled' \cap Q
  <2>1. H \in SUBSET Q /\ \A n \in H : call.quotas[n] \in Int
    BY <1>3
  <2> HIDE DEF H
  <2>2. IsFiniteSet(H)
    BY <1>3, <2>1, FS_Subset
  <2> QED BY <1>3, <2>1, <2>2, FewerUnits, UnitsFinite DEF H
<1>14. /\ Len(selected') <= Bound' /\ Bound' = Bound
       /\ class' \in 0..Len(call'.order)
       /\ (QuotasFit' <=> QuotasFit)
       /\ call' = call /\ call'.limit > 0
  <2>1. call' = call /\ Bound' = Bound /\ (QuotasFit' <=> QuotasFit) /\ call'.limit > 0
    BY <1>2, <1>5 DEF Bound, QuotasFit
  <2>2. class' \in 0..Len(call.order)
    BY <1>1, <1>2, <1>5, <1>6
  <2>3. Len(selected') <= Bound
    BY <1>3, <1>4, <1>6, <1>7
  <2> QED BY <2>1, <2>2, <2>3
\* The quota of this class is there, or all of its items are.
<1>15. ASSUME QuotasFit, name \in Q
       PROVE  quota = Len(ordered) \/ quota >= call.quotas[name]
  <2> SUFFICES ASSUME quota = Bound - Len(selected), quota < Len(ordered),
                      quota < call.quotas[name]
               PROVE  FALSE
    BY <1>3, <1>4, <1>6, <1>15
  <2>1. call.quotas[name] \in Int
    BY <1>3, <1>15
  <2> DEFINE H == Handled \cap Q
  <2>2. Tally(call.quotas, Handled' \cap Q) = Tally(call.quotas, H) + call.quotas[name]
    <3>1. Handled' \cap Q = H \cup {name} /\ H \subseteq Q /\ name \notin H
      BY <1>4, <1>11, <1>15
    <3> HIDE DEF H
    <3>2. IsFiniteSet(H) /\ \A n \in H : call.quotas[n] \in Int
      BY <1>3, <3>1, FS_Subset
    <3>3. Tally(call.quotas, H \cup {name})
            = Tally(call.quotas, H) + (IF call.quotas[name] < 0 THEN 0 ELSE call.quotas[name])
      BY <2>1, <3>1, <3>2, OneMore
    <3>4. (IF call.quotas[name] < 0 THEN 0 ELSE call.quotas[name]) = call.quotas[name]
      BY <1>6, <2>1
    <3> QED BY <3>1, <3>3, <3>4
  <2>3. Tally(call.quotas, H) \in Int /\ Len(selected) <= Tally(call.quotas, H)
    <3>1. H \subseteq Q
      OBVIOUS
    <3>2. IsFiniteSet(H) /\ \A n \in H : call.quotas[n] \in Int
      <4> HIDE DEF H
      <4> QED BY <1>3, <3>1, FS_Subset
    <3>3. Tally(call.quotas, H) \in Int
      <4> HIDE DEF H
      <4> QED BY <3>2, UnitsFinite
    <3> QED BY <1>5, <3>3
  <2>4. Tally(call.quotas, Q) <= call.limit
    BY <1>15 DEF QuotasFit, Q
  <2> HIDE DEF H
  <2>5. Len(selected) + call.quotas[name] <= call.limit
    BY <1>3, <1>6, <1>13, <2>1, <2>2, <2>3, <2>4
  <2>6. Bound = Len(call.items)
    BY <1>3, <1>6, <2>1, <2>5 DEF Bound
  <2>7. Len(selected) + Len(ordered) <= Len(call.items)
    <3> DEFINE A == Range(selected)
               B == Range(ordered)
    <3>1. IsFiniteSet(A) /\ Cardinality(A) = Len(selected)
      BY <1>1, DistinctSequence
    <3>2. IsFiniteSet(B) /\ Cardinality(B) = Len(ordered)
      BY <1>4, DistinctSequence
    <3>3. A \cap B = {} /\ A \cup B \subseteq X
      <4>1. A \subseteq X
        BY <1>5
      <4>2. B \subseteq X
        BY <1>4 DEF InClass
      <4>3. A \cap B = {}
        BY <1>4
      <4> QED BY <4>1, <4>2, <4>3
    <3> HIDE DEF A, B
    <3>4. Cardinality(A \cap B) = 0
      BY <3>3, FS_EmptySet
    <3>5. Cardinality(A \cup B) = Len(selected) + Len(ordered)
      <4>1. Cardinality(A \cup B) = Cardinality(A) + Cardinality(B) - Cardinality(A \cap B)
        BY <3>1, <3>2, FS_Union
      <4> QED BY <1>6, <3>1, <3>2, <3>4, <4>1
    <3>6. Cardinality(A \cup B) <= Cardinality(X)
      BY <1>3, <3>3, FS_Subset
    <3> QED BY <1>3, <3>5, <3>6
  <2> QED BY <1>3, <1>6, <2>6, <2>7
<1>16. ASSUME QuotasFit PROVE Shares(selected', Handled')
  <2>1. Shares(selected', Handled)
    BY <1>1, <1>5, <1>7, <1>16, SharesGrow
  <2>2. ASSUME name \in Q
        PROVE  \/ Cardinality(InClass(Range(selected'), name)) >= call.quotas[name]
               \/ InClass(X, name) \subseteq Range(selected')
    <3>1. CASE quota = Len(ordered)
      <4>1. Range(front) \subseteq Range(ordered)
        BY <1>4
      <4>2. IsFiniteSet(Range(ordered)) /\ Cardinality(Range(ordered)) = Len(ordered)
        BY <1>4, DistinctSequence
      <4>3. Cardinality(Range(front)) = Len(ordered)
        BY <1>4, <3>1, DistinctSequence
      <4>4. Range(ordered) = Range(front)
        BY <4>1, <4>2, <4>3, FS_Subset
      <4> QED BY <1>4, <1>7, <4>4
    <3>2. CASE quota >= call.quotas[name]
      <4> DEFINE A == Range(front)
                 B == InClass(Range(selected'), name)
      <4>1. Cardinality(A) = quota
        BY <1>4, DistinctSequence
      <4>2. A \subseteq B
        BY <1>4, <1>7 DEF InClass
      <4>3. IsFiniteSet(B)
        BY <1>7, MembersCounted
      <4> HIDE DEF A, B
      <4>4. Cardinality(B) \in Nat /\ Cardinality(A) <= Cardinality(B)
        BY <4>2, <4>3, FS_Subset, FS_CardinalityType
      <4>5. call.quotas[name] \in Int
        BY <1>3, <2>2
      <4>6. Cardinality(B) >= call.quotas[name]
        BY <1>6, <3>2, <4>1, <4>4, <4>5
      <4> QED BY <4>6 DEF B
    <3> QED BY <1>15, <1>16, <2>2, <3>1, <3>2
  <2> QED BY <1>11, <2>1, <2>2 DEF Shares, Q, X
<1>17. QuotasFit' => Shares(selected, Handled)'
  <2>1. QuotasFit => Shares(selected', Handled')
    BY <1>16
  <2> QED BY <1>14, <2>1 DEF Shares
<1>18. FairOpen'
  BY <1>2, <1>8, <1>9, <1>10, <1>11, <1>12, <1>14, <1>17 DEF FairOpen, X, Q
<1> QED BY <1>1, <1>2, <1>7, <1>18 DEF FairInv, X

LEMMA InvAddClass == ASSUME NEW name PROVE FairInv /\ AddClass(name) => FairInv'
<1> SUFFICES ASSUME FairInv, AddClass(name) PROVE FairInv'
  OBVIOUS
<1> DEFINE X == Range(call.items)
           values == OfClass(call.items, name)
<1>1. call \in Calls /\ ~returned /\ class = Len(call.order) /\ FairOpen
      /\ selected \in Seq(X) /\ Distinct(selected) /\ name \notin listed
  BY DEF FairInv, AddClass
<1>2. /\ remaining' = remaining \o values /\ listed' = listed \cup {name}
      /\ call' = call /\ class' = class /\ selected' = selected /\ returned' = returned
  BY DEF AddClass
<1>3. call.items \in Seq(X) /\ Distinct(call.items)
  BY <1>1, CallFacts
<1>4. values \in Seq(X) /\ Distinct(values) /\ Range(values) = InClass(X, name)
  BY <1>3, OfClassLists
<1>5. /\ remaining \in Seq(X) /\ Distinct(remaining)
      /\ Range(selected) \cap Range(remaining) = {}
      /\ Range(selected) \cup Range(remaining) = {x \in X : x.class \in listed}
  BY <1>1 DEF FairOpen
<1> HIDE DEF values, X
<1>6. Range(values) \cap (Range(selected) \cup Range(remaining)) = {}
  BY <1>1, <1>4, <1>5 DEF InClass
<1>7. /\ remaining' \in Seq(X) /\ Distinct(remaining')
      /\ Range(remaining') = Range(remaining) \cup Range(values)
  <2>1. Range(remaining) \cap Range(values) = {}
    BY <1>6
  <2>2. /\ remaining \o values \in Seq(X) /\ Distinct(remaining \o values)
        /\ Range(remaining \o values) = Range(remaining) \cup Range(values)
    BY <1>4, <1>5, <2>1, Joined
  <2> QED BY <1>2, <2>2
<1>8. Range(selected) \cap Range(remaining') = {}
  BY <1>5, <1>6, <1>7
<1>9. Range(selected) \cup Range(remaining') = {x \in X : x.class \in listed'}
  <2>1. InClass(X, name) = {x \in X : x.class = name}
    BY DEF InClass
  <2> QED BY <1>2, <1>4, <1>5, <1>7, <2>1
<1>10. FairOpen'
  <2>1. Handled' = Handled /\ Bound' = Bound /\ (QuotasFit' <=> QuotasFit)
    BY <1>2 DEF Handled, Bound, QuotasFit
  <2>2. Shares(selected, Handled) => Shares(selected, Handled)'
    BY <1>2, <2>1 DEF Shares
  <2>3. Handled \subseteq listed'
    BY <1>1, <1>2 DEF FairOpen
  <2>4. ~(class' < Len(call'.order))
    <3>1. Len(call.order) \in Nat
      BY <1>1, CallFacts
    <3> QED BY <1>1, <1>2, <3>1
  <2> QED BY <1>1, <1>2, <1>7, <1>8, <1>9, <2>1, <2>2, <2>3, <2>4 DEF FairOpen, X
<1> QED BY <1>1, <1>2, <1>10 DEF FairInv, X

LEMMA InvShareRest == FairInv /\ ShareRest => FairInv'
<1> SUFFICES ASSUME FairInv, ShareRest PROVE FairInv'
  OBVIOUS
<1> DEFINE X == Range(call.items)
           slots == Bound - Len(selected)
<1>1. call \in Calls /\ ~returned /\ class = Len(call.order) /\ FairOpen
      /\ selected \in Seq(X) /\ Distinct(selected) /\ Classes \subseteq listed
  BY DEF FairInv, ShareRest
<1>2. /\ returned' = TRUE /\ call' = call
      /\ selected' = IF slots > 0 THEN selected \o FairOrder(remaining, slots) ELSE selected
  BY DEF ShareRest
<1>3. /\ call.items \in Seq(X) /\ Distinct(call.items) /\ call.limit \in Int
      /\ Len(call.items) \in Nat /\ Bound \in Int
      /\ call.order \in Seq(Range(call.order))
      /\ IsFiniteSet(X) /\ Cardinality(X) = Len(call.items)
  BY <1>1, CallFacts
<1>4. /\ call.limit > 0
      /\ remaining \in Seq(X) /\ Distinct(remaining)
      /\ Range(selected) \cap Range(remaining) = {}
      /\ Range(selected) \cup Range(remaining) = {x \in X : x.class \in listed}
      /\ Len(selected) <= Bound
      /\ QuotasFit => Shares(selected, Handled)
  BY <1>1 DEF FairOpen
<1>5. Range(selected) \cup Range(remaining) = X
  <2>1. \A x \in X : x.class \in listed
    BY <1>1 DEF Classes, Range
  <2> QED BY <1>4, <2>1
<1>6. Handled = Range(call.order)
  <2>1. DOMAIN call.order = 1..class
    BY <1>1, <1>3
  <2> QED BY <2>1 DEF Handled, Range
<1> HIDE DEF X
<1>7. Len(selected) \in Nat /\ Len(remaining) \in Nat
  BY <1>1, <1>4
<1>8. Len(selected) + Len(remaining) = Len(call.items)
  <2> DEFINE A == Range(selected)
             B == Range(remaining)
  <2>1. IsFiniteSet(A) /\ Cardinality(A) = Len(selected)
    BY <1>1, DistinctSequence
  <2>2. IsFiniteSet(B) /\ Cardinality(B) = Len(remaining)
    BY <1>4, DistinctSequence
  <2>3. A \cap B = {} /\ A \cup B = X
    BY <1>4, <1>5
  <2> HIDE DEF A, B
  <2>4. Cardinality(A \cup B) = Cardinality(A) + Cardinality(B) - Cardinality(A \cap B)
    BY <2>1, <2>2, FS_Union
  <2>5. Cardinality(A \cap B) = 0
    BY <2>3, FS_EmptySet
  <2>6. Cardinality(A \cup B) = Len(call.items)
    BY <1>3, <2>3
  <2> QED BY <1>7, <2>1, <2>2, <2>4, <2>5, <2>6
<1>9. /\ selected' \in Seq(X) /\ Distinct(selected') /\ Len(selected') = Bound
      /\ Range(selected) \subseteq Range(selected')
  <2>1. CASE ~(slots > 0)
    BY <1>1, <1>2, <1>3, <1>4, <1>7, <2>1
  <2>2. CASE slots > 0
    <3> DEFINE shared == FairOrder(remaining, slots)
    <3>1. slots \in Int /\ slots <= Len(remaining)
      BY <1>3, <1>7, <1>8 DEF Bound
    <3>2. Cut(remaining, slots) = slots
      BY <1>7, <2>2, <3>1 DEF Cut
    <3>3. selected' = selected \o shared
      BY <1>2, <2>2
    <3> HIDE DEF slots
    <3>4. shared \in Seq(X) /\ Distinct(shared) /\ Len(shared) = slots
          /\ Range(shared) \subseteq Range(remaining)
      BY <1>4, <3>1, <3>2, FairOrderLists
    <3> HIDE DEF shared
    <3>5. Range(selected) \cap Range(shared) = {}
      BY <1>4, <3>4
    <3>6. /\ selected \o shared \in Seq(X) /\ Distinct(selected \o shared)
          /\ Len(selected \o shared) = Len(selected) + Len(shared)
          /\ Range(selected \o shared) = Range(selected) \cup Range(shared)
      BY <1>1, <3>4, <3>5, Joined
    <3>7. Len(selected') = Bound
      BY <1>3, <1>7, <3>3, <3>4, <3>6 DEF slots
    <3> QED BY <3>3, <3>6, <3>7
  <2> QED BY <2>1, <2>2
<1>10. ASSUME QuotasFit PROVE Shares(selected', Range(call.order))
  BY <1>1, <1>4, <1>6, <1>9, <1>10, SharesGrow
<1>11. FairClosed'
  <2>1. Bound' = Bound /\ (QuotasFit' <=> QuotasFit)
    BY <1>2 DEF Bound, QuotasFit
  <2>2. Shares(selected', Range(call.order)) => Shares(selected, Range(call.order))'
    BY <1>2 DEF Shares
  <2> QED BY <1>2, <1>3, <1>4, <1>9, <1>10, <2>1, <2>2 DEF FairClosed
<1> QED BY <1>1, <1>2, <1>9, <1>11 DEF FairInv, X

LEMMA FairNextInv == FairInv /\ [FairNext]_fairVars => FairInv'
<1> SUFFICES ASSUME FairInv, [FairNext]_fairVars PROVE FairInv'
  OBVIOUS
<1>1. CASE Reserve
  BY <1>1, InvReserve
<1>2. ASSUME NEW name \in Classes, AddClass(name) PROVE FairInv'
  BY <1>2, InvAddClass
<1>3. CASE ShareRest
  BY <1>3, InvShareRest
<1>4. CASE UNCHANGED fairVars
  BY <1>4 DEF fairVars, FairInv, FairOpen, FairClosed, Handled, QuotasFit, Shares, Bound
<1> QED BY <1>1, <1>2, <1>3, <1>4 DEF FairNext

LEMMA FairInvKeepsQuotas == FairInv /\ returned => QuotasKept
<1> SUFFICES ASSUME FairInv, returned PROVE QuotasKept
  OBVIOUS
<1> DEFINE X == Range(call.items)
<1>1. call \in Calls /\ selected \in Seq(X) /\ Distinct(selected) /\ FairClosed
  BY DEF FairInv
<1>2. /\ call.items \in Seq(X) /\ Distinct(call.items) /\ call.limit \in Int
      /\ \A n \in DOMAIN call.quotas : call.quotas[n] \in Int
  BY <1>1, CallFacts
<1>3. Range(selected) \subseteq X
  <2> HIDE DEF X
  <2> QED BY <1>1 DEF Range
<1>4. ASSUME call.limit > 0, QuotasFit,
             NEW c \in Range(call.order) \cap DOMAIN call.quotas
      PROVE  LET got == Cardinality(Members(selected, c)) IN
             got >= call.quotas[c] \/ got = Cardinality(Members(call.items, c))
  <2>1. Cardinality(Members(selected, c)) = Cardinality(InClass(Range(selected), c))
    BY <1>1, MembersCounted
  <2>2. Cardinality(Members(call.items, c)) = Cardinality(InClass(X, c))
    BY <1>2, MembersCounted
  <2>3. \/ Cardinality(InClass(Range(selected), c)) >= call.quotas[c]
        \/ InClass(X, c) \subseteq Range(selected)
    BY <1>1, <1>4 DEF FairClosed, Shares
  <2>4. InClass(X, c) \subseteq Range(selected) => InClass(X, c) = InClass(Range(selected), c)
    BY <1>3 DEF InClass
  <2> QED BY <2>1, <2>2, <2>3, <2>4
<1>5. Len(selected) = (IF call.limit <= 0 THEN 0 ELSE Bound)
  BY <1>1 DEF FairClosed
<1> QED BY <1>1, <1>3, <1>4, <1>5 DEF QuotasKept, QuotasFit
-----------------------------------------------------------------------------
(* Retries.                                                                *)

RetryInv == policy \in Policies /\ attempt \in Nat /\ grown \in 0..DurationMax

LEMMA RetryInitInv == RetryInit => RetryInv
BY PolicyAssumption DEF RetryInit, RetryInv

LEMMA GrowStays == RetryInv => Grow(grown) \in 0..DurationMax /\ grown <= Grow(grown)
<1> SUFFICES ASSUME RetryInv PROVE Grow(grown) \in 0..DurationMax /\ grown <= Grow(grown)
  OBVIOUS
<1>1. /\ DurationMax \in Nat /\ policy.maxDelay \in Int /\ policy.maxDelay <= DurationMax
      /\ grown \in 0..DurationMax
  BY PolicyAssumption DEF RetryInv
<1>2. Doubled(grown) \in Int /\ (Doubled(grown) > 0 => Doubled(grown) = 2 * grown /\ 2 * grown <= DurationMax)
  BY <1>1 DEF Doubled
<1> QED BY <1>1, <1>2 DEF Grow

LEMMA RetryNextInv == RetryInv /\ [TryAgain]_retryVars => RetryInv'
<1> SUFFICES ASSUME RetryInv, [TryAgain]_retryVars PROVE RetryInv'
  OBVIOUS
<1>1. CASE TryAgain
  BY <1>1, GrowStays DEF RetryInv, TryAgain
<1>2. CASE UNCHANGED retryVars
  BY <1>2 DEF RetryInv, retryVars
<1> QED BY <1>1, <1>2

LEMMA RetryInvGrows == RetryInv => BackoffGrows
<1> SUFFICES ASSUME RetryInv PROVE BackoffGrows
  OBVIOUS
<1>1. /\ DurationMax \in Nat /\ policy.maxDelay \in Int
      /\ grown \in 0..DurationMax
  BY PolicyAssumption DEF RetryInv
<1>2. Grow(grown) \in 0..DurationMax /\ grown <= Grow(grown)
  BY GrowStays
<1>3. ASSUME NEW d \in Nat
      PROVE  Delay(d, 0) = IF policy.maxDelay > 0 /\ d > policy.maxDelay
                           THEN policy.maxDelay ELSE d
  BY <1>1 DEF Delay
<1> QED BY <1>1, <1>2, <1>3 DEF BackoffGrows

\* FairOrder starves no tenant, QuotaFairOrder fills its limit and keeps the
\* quotas, for any items, classes, quotas and limit and any order of the map
\* of classes; retry delays grow to the maximum, for any policy and any width
\* of a duration (fairness.go:7 and :58, retry.go:66).
THEOREM SchedulesStayFair == SchedulingSpec => []SchedulesAreFair
<1> DEFINE Inv == FairInv /\ RetryInv
<1>1. FairInit /\ RetryInit => Inv
  BY FairInitInv, RetryInitInv
<1>2. Inv /\ [\/ FairNext /\ UNCHANGED retryVars
              \/ TryAgain /\ UNCHANGED fairVars]_<<fairVars, retryVars>> => Inv'
  <2> SUFFICES ASSUME FairInv, RetryInv,
                      [\/ FairNext /\ UNCHANGED retryVars
                       \/ TryAgain /\ UNCHANGED fairVars]_<<fairVars, retryVars>>
               PROVE  FairInv' /\ RetryInv'
    OBVIOUS
  <2>1. [FairNext]_fairVars /\ [TryAgain]_retryVars
    OBVIOUS
  <2> QED BY <2>1, FairNextInv, RetryNextInv
<1>3. Inv => SchedulesAreFair
  <2> SUFFICES ASSUME FairInv, RetryInv PROVE SchedulesAreFair
    OBVIOUS
  <2>1. Balanced(call.items, FairOrder(call.items, call.limit))
    <3>1. call \in Calls
      BY DEF FairInv
    <3> QED BY <3>1, CallFacts, FairOrderBalanced
  <2> QED BY <2>1, FairInvKeepsQuotas, RetryInvGrows DEF SchedulesAreFair
<1> QED BY <1>1, <1>2, <1>3, PTL DEF SchedulingSpec
-----------------------------------------------------------------------------
(* Powers of ten.  A recursive function is a CHOOSE; that there is one to  *)
(* choose follows from its restrictions to 0..n, by the least n without.   *)

PowersUpTo(n, f) ==
  /\ f \in [0..n -> Nat] /\ f[0] = 1
  /\ \A i \in 1..n : f[i] = 10 * f[i - 1]

LEMMA PowersExist == \A n \in Nat : \E f : PowersUpTo(n, f)
<1> DEFINE T == {n \in Nat : ~ \E f : PowersUpTo(n, f)}
<1> SUFFICES ASSUME T # {} PROVE FALSE
  OBVIOUS
<1>1. PICK n \in T : \A m \in T : n <= m
  <2>1. T \subseteq Nat
    OBVIOUS
  <2> HIDE DEF T
  <2> QED BY <2>1, LeastNumber
<1>2. n # 0
  <2>1. PowersUpTo(0, [i \in 0..0 |-> 1])
    BY DEF PowersUpTo
  <2> QED BY <1>1, <2>1
<1>3. n - 1 \in Nat /\ n - 1 \notin T
  BY <1>1, <1>2
<1>4. PICK f : PowersUpTo(n - 1, f)
  BY <1>3
<1> DEFINE g == [i \in 0..n |-> IF i = n THEN 10 * f[n - 1] ELSE f[i]]
<1>5. f \in [0..(n - 1) -> Nat] /\ f[0] = 1 /\ \A i \in 1..(n - 1) : f[i] = 10 * f[i - 1]
  BY <1>4 DEF PowersUpTo
<1>6. g \in [0..n -> Nat] /\ g[0] = 1
  BY <1>2, <1>3, <1>5
<1>7. ASSUME NEW i \in 1..n PROVE g[i] = 10 * g[i - 1]
  BY <1>2, <1>3, <1>5
<1>8. PowersUpTo(n, g)
  <2> HIDE DEF g
  <2> QED BY <1>6, <1>7 DEF PowersUpTo
<1> QED BY <1>1, <1>8

LEMMA PowersAgree ==
  ASSUME NEW m \in Nat, NEW n \in Nat, NEW f, NEW g, PowersUpTo(m, f), PowersUpTo(n, g)
  PROVE  \A i \in Nat : i <= m /\ i <= n => f[i] = g[i]
<1> DEFINE T == {i \in Nat : i <= m /\ i <= n /\ f[i] # g[i]}
<1> SUFFICES ASSUME T # {} PROVE FALSE
  OBVIOUS
<1>1. PICK i \in T : \A j \in T : i <= j
  <2>1. T \subseteq Nat
    OBVIOUS
  <2> HIDE DEF T
  <2> QED BY <2>1, LeastNumber
<1>2. i # 0
  BY <1>1 DEF PowersUpTo
<1>3. i - 1 \in Nat /\ f[i - 1] = g[i - 1]
  BY <1>1, <1>2
<1>4. i \in 1..m /\ i \in 1..n
  BY <1>1, <1>2
<1> QED BY <1>1, <1>3, <1>4 DEF PowersUpTo

LEMMA TenIs ==
  /\ Ten[0] = 1
  /\ \A n \in Nat : Ten[n] \in Nat /\ Ten[n] > 0
  /\ \A n \in Nat : Ten[n + 1] = 10 * Ten[n]
<1> DEFINE P(n) == CHOOSE f : PowersUpTo(n, f)
           h == [n \in Nat |-> P(n)[n]]
<1>1. \A n \in Nat : PowersUpTo(n, P(n))
  BY PowersExist
<1> HIDE DEF P
<1>2. h[0] = 1
  BY <1>1 DEF PowersUpTo
<1>3. ASSUME NEW n \in Nat, n # 0 PROVE h[n] = 10 * h[n - 1]
  <2>1. n - 1 \in Nat /\ n \in 1..n
    BY <1>3
  <2>2. P(n)[n] = 10 * P(n)[n - 1]
    BY <1>1, <2>1 DEF PowersUpTo
  <2>3. P(n)[n - 1] = P(n - 1)[n - 1]
    BY <1>1, <2>1, PowersAgree
  <2> QED BY <2>1, <2>2, <2>3
<1>4. \A n \in Nat : h[n] \in Nat
  BY <1>1 DEF PowersUpTo
<1>5. h = [n \in Nat |-> IF n = 0 THEN 1 ELSE 10 * h[n - 1]]
  <2>1. \A n \in Nat : h[n] = IF n = 0 THEN 1 ELSE 10 * h[n - 1]
    BY <1>2, <1>3
  <2>2. h = [n \in Nat |-> h[n]]
    OBVIOUS
  <2> HIDE DEF h
  <2> QED BY <2>1, <2>2
<1> HIDE DEF h
<1>6. Ten = [n \in Nat |-> IF n = 0 THEN 1 ELSE 10 * Ten[n - 1]]
  BY <1>5 DEF Ten
<1>7. Ten[0] = 1 /\ \A n \in Nat : n # 0 => Ten[n] = 10 * Ten[n - 1]
  BY <1>6
<1>8. \A n \in Nat : Ten[n + 1] = 10 * Ten[n]
  <2> SUFFICES ASSUME NEW n \in Nat PROVE Ten[n + 1] = 10 * Ten[n]
    OBVIOUS
  <2>1. n + 1 \in Nat /\ n + 1 # 0 /\ (n + 1) - 1 = n
    OBVIOUS
  <2> QED BY <1>7, <2>1
<1>9. \A n \in Nat : Ten[n] \in Nat /\ Ten[n] > 0
  <2> DEFINE T == {n \in Nat : ~(Ten[n] \in Nat /\ Ten[n] > 0)}
  <2> SUFFICES ASSUME T # {} PROVE FALSE
    OBVIOUS
  <2>1. PICK n \in T : \A m \in T : n <= m
    <3>1. T \subseteq Nat
      OBVIOUS
    <3> HIDE DEF T
    <3> QED BY <3>1, LeastNumber
  <2>2. n # 0
    BY <1>7, <2>1
  <2>3. n - 1 \in Nat /\ n - 1 \notin T
    BY <2>1, <2>2
  <2> QED BY <1>7, <2>1, <2>2, <2>3
<1> QED BY <1>7, <1>8, <1>9

LEMMA TenSum == \A a, b \in Nat : Ten[a + b] = Ten[a] * Ten[b]
<1> SUFFICES ASSUME NEW a \in Nat PROVE \A b \in Nat : Ten[a + b] = Ten[a] * Ten[b]
  OBVIOUS
<1> DEFINE T == {b \in Nat : Ten[a + b] # Ten[a] * Ten[b]}
<1> SUFFICES ASSUME T # {} PROVE FALSE
  OBVIOUS
<1>1. PICK b \in T : \A m \in T : b <= m
  <2>1. T \subseteq Nat
    OBVIOUS
  <2> HIDE DEF T
  <2> QED BY <2>1, LeastNumber
<1>2. b # 0
  <2>1. Ten[a] \in Nat /\ Ten[0] = 1 /\ a + 0 = a
    BY TenIs
  <2> QED BY <1>1, <2>1
<1> DEFINE c == b - 1
<1>3. c \in Nat /\ c \notin T /\ b = c + 1
  BY <1>1, <1>2
<1>4. Ten[a + c] = Ten[a] * Ten[c]
  BY <1>3
<1> HIDE DEF c
<1>5. a + c \in Nat /\ a + b = (a + c) + 1
  BY <1>3
<1>6. Ten[a + b] = 10 * Ten[a + c] /\ Ten[b] = 10 * Ten[c]
  BY <1>3, <1>5, TenIs
<1>7. Ten[a] \in Nat /\ Ten[c] \in Nat
  BY <1>3, TenIs
<1>8. 10 * (Ten[a] * Ten[c]) = Ten[a] * (10 * Ten[c])
  <2> DEFINE u == Ten[a]
             v == Ten[c]
  <2>1. u \in Nat /\ v \in Nat
    BY <1>7
  <2> HIDE DEF u, v
  <2>2. 10 * (u * v) = u * (10 * v)
    BY <2>1
  <2> QED BY <2>2 DEF u, v
<1> QED BY <1>1, <1>4, <1>6, <1>8
-----------------------------------------------------------------------------
(* Rounding.                                                               *)

LEMMA Division ==
  ASSUME NEW n \in Nat, NEW d \in Nat, d > 0
  PROVE  /\ n \div d \in Nat /\ n % d \in Nat /\ n % d < d
         /\ n = d * (n \div d) + (n % d)
OBVIOUS

\* RoundQuotient rounds as the mode says.
LEMMA RoundQuotientRounds ==
  ASSUME NEW num \in Int, NEW den \in Nat, den > 0, NEW mode
  PROVE  /\ RoundQuotient(num, den, mode) \in Int
         /\ RoundsTo(num, den, RoundQuotient(num, den, mode), mode)
<1> DEFINE a == Magnitude(num)
           q == a \div den
           r == a % den
           up == IF Away(num, q, r, den, mode) THEN 1 ELSE 0
           m == q + up
<1>1. RoundQuotient(num, den, mode) = Signed(num, m)
  <2>1. Signed(den, 1) * num = num /\ Magnitude(den) = den
    BY DEF Signed, Magnitude
  <2> QED BY <2>1 DEF RoundQuotient
<1>2. a \in Nat /\ (num >= 0 => a = num) /\ (num < 0 => a = -num)
  BY DEF Magnitude
<1> HIDE DEF a
<1>3. q \in Nat /\ r \in Nat /\ r < den /\ a = den * q + r
  BY <1>2, Division
<1> HIDE DEF q, r
<1>4. up \in {0, 1} /\ (up = 1 <=> Away(num, q, r, den, mode))
  OBVIOUS
<1> HIDE DEF up
<1>5. m \in Nat /\ den * q \in Nat
  BY <1>3, <1>4
<1> DEFINE over == up * den - r
           R == Signed(num, m)
           above == R * den - num
<1>6. over \in Int /\ (up = 0 => over = -r) /\ (up = 1 => over = den - r)
  BY <1>3, <1>4
<1>7. m * den - a = over
  <2>1. CASE up = 0
    <3>1. m * den = den * q
      BY <1>3, <2>1
    <3> QED BY <1>3, <1>5, <1>6, <2>1, <3>1
  <2>2. CASE up = 1
    <3>1. m * den = den * q + den
      BY <1>3, <2>2
    <3> QED BY <1>3, <1>5, <1>6, <2>2, <3>1
  <2> QED BY <1>4, <2>1, <2>2
<1> HIDE DEF over
<1>8. R \in Int /\ above \in Int
  BY <1>5 DEF Signed
<1>9. (num >= 0 => above = over) /\ (num < 0 => above = -over)
  <2>1. CASE num >= 0
    BY <1>2, <1>5, <1>7, <2>1 DEF Signed
  <2>2. CASE num < 0
    <3>1. R * den = -(m * den)
      BY <1>5, <2>2 DEF Signed
    <3> QED BY <1>2, <1>5, <1>6, <1>7, <2>2, <3>1
  <2> QED BY <2>1, <2>2
<1>10. num = 0 => r = 0
  BY <1>2, <1>3
<1>11. num = 0 => up = 0
  BY <1>4, <1>10 DEF Away
<1>12. m % 2 = 0 => R % 2 = 0
  BY <1>5 DEF Signed
<1>13. up = 0 => m = q
  BY <1>3
<1>14. up = 1 => m = q + 1
  BY <1>3
<1> HIDE DEF R, m
<1>15. Magnitude(above) = (IF over < 0 THEN -over ELSE over)
  BY <1>6, <1>8, <1>9 DEF Magnitude
<1> HIDE DEF above
<1>16. Magnitude(above) < den
  <2>1. up = 1 => r > 0
    BY <1>4, <1>3 DEF Away
  <2> QED BY <1>3, <1>4, <1>6, <1>15, <2>1
<1>17. mode = "floor" => above <= 0
  BY <1>3, <1>4, <1>6, <1>8, <1>9 DEF Away
<1>18. mode = "ceiling" => above >= 0
  BY <1>3, <1>4, <1>6, <1>8, <1>9, <1>10 DEF Away
<1> DEFINE toward == above = 0 \/ (num > 0 <=> above < 0)
<1>19. mode = "down" => toward
  BY <1>3, <1>4, <1>6, <1>8, <1>9, <1>10 DEF Away
<1>20. mode = "up" => ~toward \/ above = 0
  BY <1>3, <1>4, <1>6, <1>8, <1>9, <1>10 DEF Away
<1>21. mode \in {"half_up", "half_even"} => 2 * Magnitude(above) <= den
  BY <1>3, <1>4, <1>6, <1>15 DEF Away
<1>22. mode = "half_even" /\ 2 * Magnitude(above) = den => R % 2 = 0
  <2> SUFFICES ASSUME mode = "half_even", 2 * Magnitude(above) = den PROVE m % 2 = 0
    BY <1>12
  <2>1. 2 * r = den
    BY <1>3, <1>4, <1>6, <1>15
  <2>2. up = 1 <=> q % 2 = 1
    BY <1>3, <1>4, <2>1 DEF Away
  <2> QED BY <1>3, <1>4, <1>13, <1>14, <2>2
<1>23. mode = "half_up" /\ 2 * Magnitude(above) = den => ~toward
  <2> SUFFICES ASSUME mode = "half_up", 2 * Magnitude(above) = den PROVE ~toward
    OBVIOUS
  <2>1. 2 * r = den
    BY <1>3, <1>4, <1>6, <1>15
  <2>2. up = 1
    BY <1>3, <1>4, <2>1 DEF Away
  <2> QED BY <1>3, <1>6, <1>8, <1>9, <1>10, <2>1, <2>2
<1>24. RoundsTo(num, den, R, mode)
  BY <1>16, <1>17, <1>18, <1>19, <1>20, <1>21, <1>22, <1>23 DEF RoundsTo, above
<1> QED BY <1>1, <1>8, <1>24 DEF R

LEMMA RoundsExact ==
  ASSUME NEW num \in Int, NEW den \in Nat, den > 0, NEW m \in Int, NEW mode,
         m * den = num
  PROVE  RoundsTo(num, den, m, mode)
<1>1. m * den - num = 0
  OBVIOUS
<1>2. Magnitude(0) = 0
  BY DEF Magnitude
<1> QED BY <1>1, <1>2 DEF RoundsTo

LEMMA TimesInOrder ==
  ASSUME NEW a \in Int, NEW b \in Int, NEW k \in Nat, k > 0
  PROVE  /\ a * k \in Int /\ b * k \in Int
         /\ a < b <=> a * k < b * k
         /\ a = b <=> a * k = b * k
         /\ a > 0 <=> a * k > 0
         /\ a < 0 <=> a * k < 0
<1>1. ASSUME NEW c \in Int, NEW d \in Int, c < d PROVE c * k < d * k
  <2>1. d - c \in Nat /\ d - c >= 1
    BY <1>1
  <2>2. (d - c) * k >= k
    BY <2>1
  <2>3. (d - c) * k = d * k - c * k
    OBVIOUS
  <2> QED BY <2>2, <2>3
<1>2. 0 * k = 0
  OBVIOUS
<1> QED BY <1>1, <1>2

\* Rounding depends on the quotient only.
LEMMA RoundsScaled ==
  ASSUME NEW num \in Int, NEW den \in Nat, den > 0, NEW m \in Int, NEW mode,
         NEW k \in Nat, k > 0, RoundsTo(num, den, m, mode)
  PROVE  RoundsTo(num * k, den * k, m, mode)
<1> DEFINE above == m * den - num
           over == m * (den * k) - num * k
           mag == Magnitude(above)
<1>1. above \in Int /\ over = above * k /\ mag \in Nat /\ mag = (IF above < 0 THEN -above ELSE above)
  BY DEF Magnitude
<1>2. /\ Magnitude(above) < den
      /\ mode = "floor" => above <= 0
      /\ mode = "ceiling" => above >= 0
      /\ mode = "down" => above = 0 \/ (num > 0 <=> above < 0)
      /\ mode = "up" => ~(above = 0 \/ (num > 0 <=> above < 0)) \/ above = 0
      /\ mode \in {"half_up", "half_even"} => 2 * Magnitude(above) <= den
      /\ mode = "half_even" /\ 2 * Magnitude(above) = den => m % 2 = 0
      /\ mode = "half_up" /\ 2 * Magnitude(above) = den =>
           ~(above = 0 \/ (num > 0 <=> above < 0))
  BY DEF RoundsTo
<1> HIDE DEF above, over, mag
<1>3. /\ over \in Int /\ (above < 0 <=> over < 0) /\ (above > 0 <=> over > 0)
      /\ (num > 0 <=> num * k > 0) /\ num * k \in Int
  BY <1>1, TimesInOrder
<1>4. Magnitude(over) = mag * k
  <2>1. (-above) * k = -(above * k)
    BY <1>1
  <2> QED BY <1>1, <1>3, <2>1 DEF Magnitude
<1>5. /\ mag < den <=> mag * k < den * k
      /\ 2 * mag < den <=> (2 * mag) * k < den * k
      /\ 2 * mag = den <=> (2 * mag) * k = den * k
  BY <1>1, TimesInOrder
<1>6. (2 * mag) * k = 2 * Magnitude(over) /\ Magnitude(over) \in Int /\ den * k \in Int
  BY <1>1, <1>4
<1>7. mag = Magnitude(above)
  BY DEF mag
<1>8. above = 0 <=> over = 0
  BY <1>1, <1>3
<1>9. Magnitude(over) < den * k
  BY <1>2, <1>4, <1>5, <1>7
<1>10. 2 * Magnitude(over) = den * k <=> 2 * Magnitude(above) = den
  BY <1>5, <1>6, <1>7
<1>11. 2 * Magnitude(above) <= den => 2 * Magnitude(over) <= den * k
  BY <1>1, <1>5, <1>6, <1>7
<1>12. /\ mode = "floor" => over <= 0
       /\ mode = "ceiling" => over >= 0
  BY <1>1, <1>2, <1>3
<1>13. (above = 0 \/ (num > 0 <=> above < 0)) <=> (over = 0 \/ (num * k > 0 <=> over < 0))
  BY <1>3, <1>8
<1> QED BY <1>2, <1>8, <1>9, <1>10, <1>11, <1>12, <1>13 DEF RoundsTo, over

\* Rounding keeps the order, and so gives one result.
LEMMA RoundingInOrder ==
  ASSUME NEW a \in Int, NEW b \in Int, a <= b, NEW d \in Nat, d > 0,
         NEW m \in Int, NEW n \in Int, NEW mode \in RoundingModes,
         RoundsTo(a, d, m, mode), RoundsTo(b, d, n, mode)
  PROVE  m <= n
<1> SUFFICES ASSUME m > n PROVE FALSE
  OBVIOUS
<1> DEFINE A == m * d - a
           B == n * d - b
<1>1. A \in Int /\ B \in Int
  OBVIOUS
<1>2. A - B >= d /\ (A - B = d => m = n + 1 /\ a = b)
  <2>1. (m - n) * d = A - B + a - b
    OBVIOUS
  <2>2. (m - n) * d >= d /\ (m - n > 1 => (m - n) * d > d)
    <3> DEFINE c == m - n
    <3>1. c \in Nat /\ c >= 1
      OBVIOUS
    <3> HIDE DEF c
    <3>2. c * d >= d /\ (c > 1 => c * d > d)
      BY <3>1
    <3> QED BY <3>2 DEF c
  <2> HIDE DEF A, B
  <2> QED BY <1>1, <2>1, <2>2
<1>3. /\ Magnitude(A) < d
      /\ mode = "floor" => A <= 0
      /\ mode = "ceiling" => A >= 0
      /\ mode = "down" => A = 0 \/ (a > 0 <=> A < 0)
      /\ mode = "up" => ~(A = 0 \/ (a > 0 <=> A < 0)) \/ A = 0
      /\ mode \in {"half_up", "half_even"} => 2 * Magnitude(A) <= d
      /\ mode = "half_even" /\ 2 * Magnitude(A) = d => m % 2 = 0
      /\ mode = "half_up" /\ 2 * Magnitude(A) = d => ~(A = 0 \/ (a > 0 <=> A < 0))
  BY DEF RoundsTo
<1>4. /\ Magnitude(B) < d
      /\ mode = "floor" => B <= 0
      /\ mode = "ceiling" => B >= 0
      /\ mode = "down" => B = 0 \/ (b > 0 <=> B < 0)
      /\ mode = "up" => ~(B = 0 \/ (b > 0 <=> B < 0)) \/ B = 0
      /\ mode \in {"half_up", "half_even"} => 2 * Magnitude(B) <= d
      /\ mode = "half_even" /\ 2 * Magnitude(B) = d => n % 2 = 0
      /\ mode = "half_up" /\ 2 * Magnitude(B) = d => ~(B = 0 \/ (b > 0 <=> B < 0))
  BY DEF RoundsTo
<1> HIDE DEF A, B
<1>5. /\ Magnitude(A) = (IF A < 0 THEN -A ELSE A)
      /\ Magnitude(B) = (IF B < 0 THEN -B ELSE B)
  BY DEF Magnitude
<1>6. A > 0 /\ B < 0
  BY <1>1, <1>2, <1>3, <1>4, <1>5
<1>7. CASE mode \in {"floor", "ceiling"}
  BY <1>1, <1>3, <1>4, <1>6, <1>7
<1>9. CASE mode = "up"
  <2>1. a > 0 /\ ~(b > 0)
    BY <1>1, <1>3, <1>4, <1>6, <1>9
  <2> QED BY <2>1
<1>10. CASE mode = "down"
  <2>1. a <= 0 /\ b > 0
    BY <1>1, <1>3, <1>4, <1>6, <1>10
  <2>2. m * d = A + a /\ n * d = B + b
    BY DEF A, B
  <2>3. A < d /\ -d < B
    BY <1>1, <1>3, <1>4, <1>5, <1>6
  <2>4. m * d < 1 * d /\ (-1) * d < n * d
    BY <1>1, <2>1, <2>2, <2>3
  <2>5. m < 1 /\ -1 < n
    BY <2>4, TimesInOrder
  <2> QED BY <2>5
<1>8. CASE mode \in {"half_up", "half_even"}
  <2>1. 2 * Magnitude(A) = d /\ 2 * Magnitude(B) = d /\ A - B = d
    BY <1>1, <1>2, <1>3, <1>4, <1>5, <1>6, <1>8
  <2>2. m = n + 1 /\ a = b
    BY <1>2, <2>1
  <2>3. CASE mode = "half_up"
    <3>1. a > 0 /\ ~(b > 0)
      BY <1>1, <1>3, <1>4, <1>6, <2>1, <2>3
    <3> QED BY <2>2, <3>1
  <2>4. CASE mode = "half_even"
    BY <1>3, <1>4, <2>1, <2>2, <2>4
  <2> QED BY <1>8, <2>3, <2>4
<1> QED BY <1>7, <1>8, <1>9, <1>10 DEF RoundingModes

Operands == [int : Int, places : Int]

LEMMA AtMore ==
  ASSUME NEW v \in Operands, NEW P \in Int, NEW K \in Int, v.places <= P, P <= K
  PROVE  /\ At(v, P) \in Int /\ At(v, K) \in Int
         /\ At(v, K) = At(v, P) * Ten[K - P]
<1>1. v.int \in Int /\ v.places \in Int
  BY DEF Operands
<1>2. P - v.places \in Nat /\ K - P \in Nat /\ (P - v.places) + (K - P) = K - v.places
  BY <1>1
<1> DEFINE t == Ten[P - v.places]
           k == Ten[K - P]
<1>3. t \in Nat /\ k \in Nat /\ Ten[K - v.places] = t * k
  BY <1>2, TenIs, TenSum
<1>4. At(v, P) = v.int * t /\ At(v, K) = v.int * (t * k)
  BY <1>3 DEF At
<1> HIDE DEF t, k
<1>5. v.int * t \in Int /\ v.int * (t * k) = (v.int * t) * k /\ (v.int * t) * k \in Int
  BY <1>1, <1>3
<1> QED BY <1>4, <1>5 DEF k

\* The minor units of a decimal, seen at any larger number of places.
LEMMA RoundDecimalRounds ==
  ASSUME NEW v \in Operands, NEW scale \in Nat, NEW mode,
         NEW K \in Int, v.places <= K, scale <= K
  PROVE  /\ roundDecimal(v, scale, mode) \in Int
         /\ At(v, K) \in Int /\ Ten[K - scale] \in Nat /\ Ten[K - scale] > 0
         /\ RoundsTo(At(v, K), Ten[K - scale], roundDecimal(v, scale, mode), mode)
<1>0. v.int \in Int /\ v.places \in Int
  BY DEF Operands
<1>1. K - v.places \in Nat /\ K - scale \in Nat
  BY <1>0
<1>2. Ten[K - v.places] \in Nat /\ Ten[K - scale] \in Nat /\ Ten[K - scale] > 0
      /\ Ten[K - v.places] > 0 /\ At(v, K) = v.int * Ten[K - v.places]
  BY <1>1, TenIs DEF At
<1>3. CASE v.places <= scale
  <2> DEFINE t == Ten[scale - v.places]
             u == Ten[K - scale]
             i == v.int
  <2>1. scale - v.places \in Nat /\ (scale - v.places) + (K - scale) = K - v.places
    BY <1>0, <1>3
  <2>2. t \in Nat /\ Ten[K - v.places] = t * u
    BY <1>1, <2>1, TenIs, TenSum
  <2>3. roundDecimal(v, scale, mode) = i * t
    BY <1>3 DEF roundDecimal
  <2>4. u \in Nat /\ u > 0 /\ i \in Int
    BY <1>0, <1>2
  <2> HIDE DEF t, u, i
  <2>5. i * t \in Int /\ (i * t) * u = i * (t * u)
    BY <2>2, <2>4
  <2>6. RoundsTo(i * (t * u), u, i * t, mode)
    BY <2>2, <2>4, <2>5, RoundsExact
  <2>7. At(v, K) = i * (t * u)
    BY <1>2, <2>2 DEF i
  <2> QED BY <1>2, <2>2, <2>3, <2>4, <2>5, <2>6, <2>7 DEF u
<1>4. CASE v.places > scale
  <2> DEFINE t == Ten[v.places - scale]
             k == Ten[K - v.places]
             m == roundDecimal(v, scale, mode)
  <2>1. v.places - scale \in Nat /\ (v.places - scale) + (K - v.places) = K - scale
    BY <1>0, <1>4
  <2>2. t \in Nat /\ t > 0 /\ Ten[K - scale] = t * k
    BY <1>1, <2>1, TenIs, TenSum
  <2>3. m = RoundQuotient(v.int, t, mode)
    BY <1>0, <1>4 DEF roundDecimal
  <2> HIDE DEF t, m
  <2>4. m \in Int /\ RoundsTo(v.int, t, m, mode)
    BY <1>0, <2>2, <2>3, RoundQuotientRounds
  <2>5. RoundsTo(v.int * k, t * k, m, mode)
    BY <1>0, <1>2, <2>2, <2>4, RoundsScaled
  <2> QED BY <1>0, <1>2, <2>2, <2>4, <2>5 DEF m
<1> QED BY <1>0, <1>3, <1>4

LEMMA NormalizeIs ==
  ASSUME NEW v \in Operands, NEW config
  PROVE  LET minor == roundDecimal(v, config.scale, config.mode) IN
         /\ v # NaN
         /\ NormalizeDecimal(v, config) =
              IF Magnitude(minor) >= Ten[config.precision] THEN Error("precision_overflow")
              ELSE Ok(minor)
<1>1. v # NaN
  BY DEF Operands, NaN
<1> QED BY <1>1 DEF NormalizeDecimal

\* A normalized decimal is the rounded one, and fits.
LEMMA NormalizedFits ==
  ASSUME NEW v \in Operands, NEW config, config.scale \in Nat, config.precision \in Nat,
         ~Failed(NormalizeDecimal(v, config))
  PROVE  /\ NormalizeDecimal(v, config) = Ok(roundDecimal(v, config.scale, config.mode))
         /\ NormalizeDecimal(v, config).value = roundDecimal(v, config.scale, config.mode)
         /\ roundDecimal(v, config.scale, config.mode) \in Int
         /\ Magnitude(roundDecimal(v, config.scale, config.mode)) < Ten[config.precision]
<1> DEFINE minor == roundDecimal(v, config.scale, config.mode)
<1>1. minor \in Int
  <2>1. v.places \in Int
    BY DEF Operands
  <2>2. \E K \in Int : v.places <= K /\ config.scale <= K
    <3>1. CASE v.places <= config.scale
      BY <3>1
    <3>2. CASE v.places > config.scale
      BY <2>1, <3>2
    <3> QED BY <2>1, <3>1, <3>2
  <2> QED BY <2>2, RoundDecimalRounds
<1>2. NormalizeDecimal(v, config) =
        IF Magnitude(minor) >= Ten[config.precision] THEN Error("precision_overflow")
        ELSE Ok(minor)
  BY NormalizeIs
<1> HIDE DEF minor
<1>3. Magnitude(minor) \in Int /\ Ten[config.precision] \in Int
  BY <1>1, TenIs DEF Magnitude
<1>4. ~(Magnitude(minor) >= Ten[config.precision])
  BY <1>2 DEF Failed, Error
<1>5. NormalizeDecimal(v, config) = Ok(minor) /\ Ok(minor).value = minor
  BY <1>2, <1>4 DEF Ok
<1> QED BY <1>1, <1>3, <1>4, <1>5 DEF minor
-----------------------------------------------------------------------------
(* The text of the database.                                               *)

LEMMA QuotientIs ==
  ASSUME NEW n \in Nat, NEW d \in Nat, d > 0, NEW p \in Nat, NEW s \in Nat, s < d,
         n = d * p + s
  PROVE  n \div d = p
<1> DEFINE q == n \div d
           r == n % d
<1>1. q \in Nat /\ r \in Nat /\ r < d /\ n = d * q + r
  BY Division
<1> HIDE DEF q, r
<1>2. q * d - p * d = s - r /\ q * d \in Int /\ p * d \in Int
  BY <1>1
<1>3. ~(q < p)
  <2> SUFFICES ASSUME q < p PROVE FALSE
    OBVIOUS
  <2>1. (p - q) * d >= d
    <3> DEFINE c == p - q
    <3>1. c \in Nat /\ c >= 1
      BY <1>1
    <3> HIDE DEF c
    <3>2. c * d >= d
      BY <3>1
    <3> QED BY <3>2 DEF c
  <2>2. (p - q) * d = p * d - q * d
    BY <1>1
  <2> QED BY <1>1, <1>2, <2>1, <2>2
<1>4. ~(p < q)
  <2> SUFFICES ASSUME p < q PROVE FALSE
    OBVIOUS
  <2>1. (q - p) * d >= d
    <3> DEFINE c == q - p
    <3>1. c \in Nat /\ c >= 1
      BY <1>1
    <3> HIDE DEF c
    <3>2. c * d >= d
      BY <3>1
    <3> QED BY <3>2 DEF c
  <2>2. (q - p) * d = q * d - p * d
    BY <1>1
  <2> QED BY <1>1, <1>2, <2>1, <2>2
<1> QED BY <1>1, <1>3, <1>4 DEF q

\* Dropping one more digit.
LEMMA DropDigit ==
  ASSUME NEW n \in Nat, NEW t \in Nat, t > 0
  PROVE  /\ n \div t \in Nat /\ n \div (10 * t) \in Nat /\ (n \div t) % 10 \in 0..9
         /\ n \div t = 10 * (n \div (10 * t)) + ((n \div t) % 10)
<1> DEFINE q == n \div t
           r == n % t
           p == q \div 10
           e == q % 10
<1>1. q \in Nat /\ r \in Nat /\ r < t /\ n = t * q + r
  BY Division
<1> HIDE DEF q, r
<1>2. p \in Nat /\ e \in Nat /\ e < 10 /\ q = 10 * p + e
  BY <1>1, Division
<1> HIDE DEF p, e
<1>3. n = (10 * t) * p + (t * e + r)
  <2>1. t * q = (10 * t) * p + t * e
    BY <1>1, <1>2
  <2> QED BY <1>1, <1>2, <2>1
<1>4. t * e + r \in Nat /\ t * e + r < 10 * t
  <2>1. t * e <= t * 9 /\ t * e \in Nat
    BY <1>2
  <2> QED BY <1>1, <2>1
<1>5. n \div (10 * t) = p
  <2> DEFINE d == 10 * t
             s == t * e + r
  <2>1. d \in Nat /\ d > 0 /\ s \in Nat /\ s < d /\ n = d * p + s
    BY <1>3, <1>4
  <2> HIDE DEF d, s
  <2>2. n \div d = p
    BY <1>2, <2>1, QuotientIs
  <2> QED BY <2>2 DEF d
<1> QED BY <1>1, <1>2, <1>5 DEF q, e

\* The number the first i digits of n denote, of a text of w digits.
Leading(n, w, i) == n \div Ten[w - i]

LEMMA LeadingStep ==
  ASSUME NEW n \in Nat, NEW w \in Nat, NEW i \in 1..w
  PROVE  /\ Leading(n, w, i - 1) \in Nat /\ Leading(n, w, i) \in Nat
         /\ Digits(n, w)[i] \in 0..9
         /\ Leading(n, w, i) = 10 * Leading(n, w, i - 1) + Digits(n, w)[i]
<1> DEFINE t == Ten[w - i]
<1>1. w - i \in Nat /\ w - (i - 1) = (w - i) + 1
  OBVIOUS
<1>2. t \in Nat /\ t > 0 /\ Ten[w - (i - 1)] = 10 * t
  BY <1>1, TenIs
<1>3. Digits(n, w)[i] = (n \div t) % 10 /\ Leading(n, w, i) = n \div t
  BY DEF Digits, Leading
<1>4. Leading(n, w, i - 1) = n \div (10 * t)
  BY <1>2 DEF Leading
<1> HIDE DEF t
<1> QED BY <1>2, <1>3, <1>4, DropDigit

LEMMA LeadingEnds ==
  ASSUME NEW n \in Nat, NEW w \in Nat, n < Ten[w]
  PROVE  Leading(n, w, 0) = 0 /\ Leading(n, w, w) = n
<1>1. Leading(n, w, 0) = 0
  <2> DEFINE t == Ten[w]
  <2>1. t \in Nat /\ t > 0 /\ n < t /\ n = t * 0 + n
    BY TenIs
  <2>2. Leading(n, w, 0) = n \div t
    BY DEF Leading
  <2> HIDE DEF t
  <2> QED BY <2>1, <2>2, QuotientIs
<1>2. Leading(n, w, w) = n
  <2>1. Leading(n, w, w) = n \div 1
    BY TenIs DEF Leading
  <2> QED BY <2>1
<1> QED BY <1>1, <1>2

\* Reading the digits of n gives n.
LEMMA ParseDigits ==
  ASSUME NEW n \in Nat, NEW w \in Nat, n < Ten[w]
  PROVE  Len(Digits(n, w)) = w /\ Parse(Digits(n, w)) = n
<1> DEFINE text == Digits(n, w)
           F(f) == [i \in 0..w |-> IF i = 0 THEN 0 ELSE f[i - 1] + Place(text, i)]
           h == [i \in 0..w |-> Leading(n, w, i) * Ten[w - i]]
           upTo == CHOOSE f : f = F(f)
<1>1. Len(text) = w
  BY DEF Digits
<1>2. Parse(text) = upTo[w]
  BY <1>1 DEF Parse
<1>3. h[0] = 0 /\ h[w] = n
  <2>1. Ten[w - 0] \in Nat /\ Ten[w - w] = 1
    BY TenIs
  <2> QED BY <2>1, LeadingEnds
<1>4. ASSUME NEW i \in 1..w
      PROVE  h[i] = h[i - 1] + Place(text, i) /\ h[i - 1] \in Int /\ Place(text, i) \in Int
  <2> DEFINE t == Ten[w - i]
             a == Leading(n, w, i - 1)
             e == text[i]
  <2>1. w - i \in Nat /\ w - (i - 1) = (w - i) + 1 /\ i - 1 \in 0..w /\ i \in 0..w
    OBVIOUS
  <2>2. t \in Nat /\ Ten[w - (i - 1)] = 10 * t
    BY <2>1, TenIs
  <2>3. a \in Nat /\ e \in 0..9 /\ Leading(n, w, i) = 10 * a + e
    BY LeadingStep
  <2>4. h[i] = (10 * a + e) * t /\ h[i - 1] = a * (10 * t) /\ Place(text, i) = e * t
    BY <1>1, <2>1, <2>2, <2>3 DEF Place
  <2> HIDE DEF t, a, e, h
  <2>5. (10 * a + e) * t = a * (10 * t) + e * t
    BY <2>2, <2>3
  <2>6. a * (10 * t) \in Int /\ e * t \in Int
    BY <2>2, <2>3
  <2> QED BY <2>4, <2>5, <2>6
<1>5. h = F(h)
  <2>1. \A i \in 0..w : h[i] = IF i = 0 THEN 0 ELSE h[i - 1] + Place(text, i)
    <3> SUFFICES ASSUME NEW i \in 0..w, i # 0 PROVE h[i] = h[i - 1] + Place(text, i)
      BY <1>3
    <3> HIDE DEF h
    <3> QED BY <1>4
  <2>2. h = [i \in 0..w |-> h[i]]
    OBVIOUS
  <2> HIDE DEF h
  <2> QED BY <2>1, <2>2
<1> HIDE DEF h
<1>6. upTo = F(upTo)
  BY <1>5
<1> HIDE DEF upTo
<1>7. upTo[0] = 0 /\ \A i \in 1..w : upTo[i] = upTo[i - 1] + Place(text, i)
  <2>1. \A i \in 0..w : F(upTo)[i] = IF i = 0 THEN 0 ELSE upTo[i - 1] + Place(text, i)
    OBVIOUS
  <2>2. \A i \in 0..w : upTo[i] = IF i = 0 THEN 0 ELSE upTo[i - 1] + Place(text, i)
    <3> HIDE DEF F
    <3> QED BY <1>6, <2>1
  <2> QED BY <2>2
<1>8. \A i \in 0..w : upTo[i] = h[i]
  <2> DEFINE T == {i \in 0..w : upTo[i] # h[i]}
  <2> SUFFICES ASSUME T # {} PROVE FALSE
    OBVIOUS
  <2>1. PICK i \in T : \A j \in T : i <= j
    <3>1. T \subseteq Nat
      OBVIOUS
    <3> HIDE DEF T
    <3> QED BY <3>1, LeastNumber
  <2>2. i # 0
    BY <1>3, <1>7, <2>1
  <2>3. i \in 1..w /\ i - 1 \in 0..w /\ i - 1 \notin T
    BY <2>1, <2>2
  <2>4. upTo[i - 1] = h[i - 1]
    BY <2>3
  <2> QED BY <1>4, <1>7, <2>1, <2>3, <2>4
<1> QED BY <1>1, <1>2, <1>3, <1>8

LEMMA QuotientInOrder ==
  ASSUME NEW a \in Nat, NEW b \in Nat, a <= b, NEW t \in Nat, t > 0
  PROVE  a \div t <= b \div t
<1> DEFINE p == a \div t
           q == b \div t
<1>1. p \in Nat /\ \E r \in Nat : r < t /\ a = t * p + r
  BY Division
<1>2. q \in Nat /\ \E r \in Nat : r < t /\ b = t * q + r
  BY Division
<1> HIDE DEF p, q
<1>3. PICK r \in Nat : r < t /\ a = t * p + r
  BY <1>1
<1>4. PICK s \in Nat : s < t /\ b = t * q + s
  BY <1>2
<1>5. ASSUME q < p PROVE FALSE
  <2>1. (p - q) * t >= t
    <3> DEFINE c == p - q
    <3>1. c \in Nat /\ c >= 1
      BY <1>1, <1>2, <1>5
    <3> HIDE DEF c
    <3>2. c * t >= t
      BY <3>1
    <3> QED BY <3>2 DEF c
  <2>2. (p - q) * t = t * p - t * q /\ t * p \in Int /\ t * q \in Int
    BY <1>1, <1>2
  <2> QED BY <1>3, <1>4, <2>1, <2>2
<1> QED BY <1>1, <1>2, <1>5 DEF p, q

\* A smaller number has the smaller text.
LEMMA SmallerFirst ==
  ASSUME NEW a \in Nat, NEW b \in Nat, NEW w \in Nat, a < Ten[w], b < Ten[w], a < b
  PROVE  TextBefore(Digits(a, w), Digits(b, w))
<1> DEFINE T == {i \in 0..w : Leading(a, w, i) # Leading(b, w, i)}
<1>1. w \in T
  BY LeadingEnds
<1>2. PICK i \in T : \A j \in T : i <= j
  <2>1. T \subseteq Nat /\ T # {}
    BY <1>1
  <2> HIDE DEF T
  <2> QED BY <2>1, LeastNumber
<1>3. i # 0
  BY <1>2, LeadingEnds
<1>4. i \in 1..w /\ i - 1 \in 0..w /\ i - 1 \notin T
  BY <1>2, <1>3
<1>5. \A j \in 0..(i - 1) : Leading(a, w, j) = Leading(b, w, j)
  BY <1>2, <1>4
<1>6. Leading(a, w, i) < Leading(b, w, i)
  <2>1. w - i \in Nat
    BY <1>4
  <2>2. Ten[w - i] \in Nat /\ Ten[w - i] > 0
    BY <2>1, TenIs
  <2>3. Leading(a, w, i) <= Leading(b, w, i)
    BY <2>2, QuotientInOrder DEF Leading
  <2>4. Leading(a, w, i) \in Nat /\ Leading(b, w, i) \in Nat
    BY <1>4, LeadingStep
  <2> QED BY <1>2, <2>3, <2>4
<1>7. Digits(a, w)[i] < Digits(b, w)[i]
  <2>1. /\ Leading(a, w, i) = 10 * Leading(a, w, i - 1) + Digits(a, w)[i]
        /\ Leading(b, w, i) = 10 * Leading(b, w, i - 1) + Digits(b, w)[i]
        /\ Leading(a, w, i - 1) \in Nat /\ Digits(a, w)[i] \in 0..9 /\ Digits(b, w)[i] \in 0..9
    BY <1>4, LeadingStep
  <2>2. Leading(a, w, i - 1) = Leading(b, w, i - 1)
    BY <1>4
  <2> QED BY <1>6, <2>1, <2>2
<1>8. ASSUME NEW j \in 1..(i - 1) PROVE Digits(a, w)[j] = Digits(b, w)[j]
  <2>1. j \in 1..w /\ j - 1 \in 0..(i - 1) /\ j \in 0..(i - 1)
    BY <1>4
  <2>2. /\ Leading(a, w, j) = 10 * Leading(a, w, j - 1) + Digits(a, w)[j]
        /\ Leading(b, w, j) = 10 * Leading(b, w, j - 1) + Digits(b, w)[j]
        /\ Leading(a, w, j - 1) \in Nat /\ Digits(a, w)[j] \in 0..9 /\ Digits(b, w)[j] \in 0..9
    BY <2>1, LeadingStep
  <2>3. Leading(a, w, j) = Leading(b, w, j) /\ Leading(a, w, j - 1) = Leading(b, w, j - 1)
    BY <1>5, <2>1
  <2> QED BY <2>2, <2>3
<1>9. i \in DOMAIN Digits(a, w)
  BY <1>4 DEF Digits
<1> QED BY <1>7, <1>8, <1>9 DEF TextBefore

LEMMA TextOrder ==
  ASSUME NEW a \in Nat, NEW b \in Nat, NEW w \in Nat, a < Ten[w], b < Ten[w]
  PROVE  a < b <=> TextBefore(Digits(a, w), Digits(b, w))
<1> DEFINE s == Digits(a, w)
           t == Digits(b, w)
<1>1. /\ DOMAIN s = 1..w /\ DOMAIN t = 1..w
      /\ \A i \in 1..w : s[i] \in Int /\ t[i] \in Int
  <2>1. \A i \in 1..w : s[i] \in 0..9 /\ t[i] \in 0..9
    BY LeadingStep
  <2> QED BY <2>1 DEF Digits
<1>2. ASSUME TextBefore(s, t), ~(a < b) PROVE FALSE
  <2>1. PICK i \in 1..w : s[i] < t[i] /\ \A j \in 1..(i - 1) : s[j] = t[j]
    BY <1>1, <1>2 DEF TextBefore
  <2>2. a # b
    <3> SUFFICES ASSUME a = b PROVE FALSE
      OBVIOUS
    <3>1. s[i] = t[i] /\ s[i] \in Int /\ t[i] \in Int
      BY <1>1
    <3> HIDE DEF s, t
    <3> QED BY <2>1, <3>1
  <2>3. TextBefore(t, s)
    BY <1>2, <2>2, SmallerFirst
  <2> HIDE DEF s, t
  <2>4. PICK k \in 1..w : t[k] < s[k] /\ \A j \in 1..(k - 1) : t[j] = s[j]
    BY <1>1, <2>3 DEF TextBefore
  <2>5. CASE i < k
    <3>1. t[i] = s[i]
      BY <2>4, <2>5
    <3> QED BY <1>1, <2>1, <3>1
  <2>6. CASE k < i
    <3>1. s[k] = t[k]
      BY <2>1, <2>6
    <3> QED BY <1>1, <2>4, <3>1
  <2>7. CASE i = k
    BY <1>1, <2>1, <2>4, <2>7
  <2> QED BY <2>5, <2>6, <2>7
<1> QED BY <1>2, SmallerFirst

\* What is stored decodes to what was normalized, and sorts as it compares.
LEMMA EncodingKeepsOrder ==
  ASSUME NEW x \in Operands, NEW y \in Operands, NEW config,
         config.scale \in Nat, config.precision \in Nat, config.mode \in RoundingModes
  PROVE  OrderedEncoding(x, y, config)
<1> DEFINE ex == EncodeSQLiteDecimal(x, config)
           ey == EncodeSQLiteDecimal(y, config)
           places == Larger(x.places, y.places)
           compared == CompareDecimals(x, y, config)
           left == NormalizeDecimal(x, config)
           right == NormalizeDecimal(y, config)
           m == roundDecimal(x, config.scale, config.mode)
           n == roundDecimal(y, config.scale, config.mode)
           p == config.precision
           a == Ten[p] + m
           b == Ten[p] + n
           w == p + 1
<1> SUFFICES ASSUME ~Failed(compared)
             PROVE  /\ DecodeSQLiteDecimal(ex.value, config) = left
                    /\ (compared.value = -1) <=> TextBefore(ex.value, ey.value)
                    /\ (compared.value = 1) <=> TextBefore(ey.value, ex.value)
                    /\ At(x, places) <= At(y, places) => compared.value # 1
  BY DEF OrderedEncoding
<1>1. ~Failed(left) /\ ~Failed(right)
  BY DEF CompareDecimals
<1>2. left = Ok(m) /\ left.value = m /\ m \in Int /\ Magnitude(m) < Ten[p]
  BY <1>1, NormalizedFits
<1>3. right = Ok(n) /\ right.value = n /\ n \in Int /\ Magnitude(n) < Ten[p]
  BY <1>1, NormalizedFits
<1>4. compared.value = IF m < n THEN -1 ELSE IF m > n THEN 1 ELSE 0
  BY <1>1, <1>2, <1>3 DEF CompareDecimals, Ok
<1>5. ex.value = Digits(a, w) /\ ey.value = Digits(b, w)
  BY <1>1, <1>2, <1>3 DEF EncodeSQLiteDecimal, Ok
<1> HIDE DEF left, right, m, n
<1>6. Ten[p] \in Nat /\ Ten[w] = 10 * Ten[p]
  BY TenIs
<1>7. a \in Nat /\ b \in Nat /\ a < Ten[w] /\ b < Ten[w]
  BY <1>2, <1>3, <1>6 DEF Magnitude
<1>8. DecodeSQLiteDecimal(ex.value, config) = left
  <2>1. Len(Digits(a, w)) = w /\ Parse(Digits(a, w)) = a
    BY <1>7, ParseDigits
  <2>2. DecodeSQLiteDecimal(ex.value, config) = Ok(a - Ten[p])
    BY <1>5, <2>1 DEF DecodeSQLiteDecimal
  <2>3. a - Ten[p] = m
    BY <1>2, <1>6
  <2> QED BY <1>2, <2>2, <2>3
<1>9. (m < n <=> TextBefore(ex.value, ey.value)) /\ (n < m <=> TextBefore(ey.value, ex.value))
  <2>1. (m < n <=> a < b) /\ (n < m <=> b < a)
    BY <1>2, <1>3, <1>6
  <2> HIDE DEF a, b, ex, ey
  <2>2. (a < b <=> TextBefore(Digits(a, w), Digits(b, w)))
        /\ (b < a <=> TextBefore(Digits(b, w), Digits(a, w)))
    BY <1>7, TextOrder
  <2> QED BY <1>5, <2>1, <2>2
<1>10. (compared.value = -1 <=> m < n) /\ (compared.value = 1 <=> n < m)
  <2> HIDE DEF compared
  <2> QED BY <1>2, <1>3, <1>4
<1>11. ASSUME At(x, places) <= At(y, places) PROVE ~(n < m)
  <2> DEFINE K == IF places > config.scale THEN places ELSE config.scale
  <2>0. x.places \in Int /\ y.places \in Int /\ x.int \in Int /\ y.int \in Int
    BY DEF Operands
  <2>1. places \in Int /\ x.places <= places /\ y.places <= places
    BY <2>0 DEF Larger
  <2>2. K \in Int /\ places <= K /\ config.scale <= K /\ x.places <= K /\ y.places <= K
    BY <2>0, <2>1
  <2> HIDE DEF K, places
  <2>3. /\ m \in Int /\ At(x, K) \in Int /\ Ten[K - config.scale] \in Nat
        /\ Ten[K - config.scale] > 0
        /\ RoundsTo(At(x, K), Ten[K - config.scale], m, config.mode)
    BY <2>2, RoundDecimalRounds DEF m
  <2>4. /\ n \in Int /\ At(y, K) \in Int
        /\ RoundsTo(At(y, K), Ten[K - config.scale], n, config.mode)
    BY <2>2, RoundDecimalRounds DEF n
  <2>5. At(x, K) <= At(y, K)
    <3> DEFINE k == Ten[K - places]
    <3>1. k \in Nat /\ k > 0
      BY <2>1, <2>2, TenIs
    <3> HIDE DEF k
    <3>2. At(x, places) \in Int /\ At(y, places) \in Int
          /\ At(x, K) = At(x, places) * k /\ At(y, K) = At(y, places) * k
      BY <2>1, <2>2, AtMore DEF k
    <3>3. (At(y, places) < At(x, places)) <=> (At(y, places) * k < At(x, places) * k)
      BY <3>1, <3>2, TimesInOrder
    <3> QED BY <1>11, <2>3, <2>4, <3>2, <3>3 DEF places
  <2>6. m <= n
    BY <2>3, <2>4, <2>5, RoundingInOrder
  <2> QED BY <1>2, <1>3, <2>6
<1> HIDE DEF compared, ex, ey, places
<1> QED BY <1>8, <1>9, <1>10, <1>11
-----------------------------------------------------------------------------
(* Calculations.                                                           *)

\* Two decimals of one value are rounded alike.
LEMMA SameValue ==
  ASSUME NEW u \in Operands, NEW v \in Operands, NEW scale \in Nat,
         NEW mode \in RoundingModes,
         NEW K \in Int, u.places <= K, v.places <= K, scale <= K, At(u, K) = At(v, K)
  PROVE  roundDecimal(u, scale, mode) = roundDecimal(v, scale, mode)
<1> DEFINE m == roundDecimal(u, scale, mode)
           n == roundDecimal(v, scale, mode)
<1>1. /\ m \in Int /\ At(u, K) \in Int /\ Ten[K - scale] \in Nat /\ Ten[K - scale] > 0
      /\ RoundsTo(At(u, K), Ten[K - scale], m, mode)
  BY RoundDecimalRounds
<1>2. n \in Int /\ RoundsTo(At(u, K), Ten[K - scale], n, mode)
  BY RoundDecimalRounds
<1> HIDE DEF m, n
<1>3. At(u, K) <= At(u, K)
  BY <1>1
<1>4. m <= n /\ n <= m
  BY <1>1, <1>2, <1>3, RoundingInOrder
<1> QED BY <1>1, <1>2, <1>4 DEF m, n

LEMMA SumAt ==
  ASSUME NEW x \in Operands, NEW y \in Operands, NEW K \in Int, x.places <= K, y.places <= K
  PROVE  LET P == Larger(x.places, y.places)
             sum == Number(At(x, P) + At(y, P), P)
             difference == Number(At(x, P) - At(y, P), P)
         IN  /\ P \in Int /\ P <= K /\ sum \in Operands /\ difference \in Operands
             /\ sum.places = P /\ difference.places = P
             /\ At(sum, K) = At(x, K) + At(y, K)
             /\ At(difference, K) = At(x, K) - At(y, K)
<1> DEFINE P == Larger(x.places, y.places)
           sum == Number(At(x, P) + At(y, P), P)
           difference == Number(At(x, P) - At(y, P), P)
           k == Ten[K - P]
           a == At(x, P)
           b == At(y, P)
<1>0. x.places \in Int /\ y.places \in Int
  BY DEF Operands
<1>1. P \in Int /\ x.places <= P /\ y.places <= P /\ P <= K
  BY <1>0 DEF Larger
<1> HIDE DEF P
<1>2. a \in Int /\ b \in Int /\ At(x, K) = a * k /\ At(y, K) = b * k
  BY <1>1, AtMore
<1>3. k \in Nat
  BY <1>1, TenIs
<1>4. sum = [int |-> a + b, places |-> P] /\ difference = [int |-> a - b, places |-> P]
  BY DEF Number
<1> HIDE DEF a, b, k
<1>5. sum \in Operands /\ difference \in Operands /\ sum.places = P /\ difference.places = P
      /\ sum.int = a + b /\ difference.int = a - b
  BY <1>1, <1>2, <1>4 DEF Operands
<1> HIDE DEF sum, difference
<1>6. At(sum, K) = (a + b) * k /\ At(difference, K) = (a - b) * k
  BY <1>5 DEF At, k
<1>7. (a + b) * k = a * k + b * k /\ (a - b) * k = a * k - b * k
  BY <1>2, <1>3
<1> QED BY <1>1, <1>2, <1>5, <1>6, <1>7 DEF P, sum, difference

\* Dividing by a hundred at enough places is exact.
LEMMA HundredthAt ==
  ASSUME NEW v \in Operands, NEW D \in Nat, v.places + 2 <= D
  PROVE  DivRound(v, Number(100, 0), D) = Number(v.int * Ten[D - v.places - 2], D)
<1>0. v.int \in Int /\ v.places \in Int
  BY DEF Operands
<1> DEFINE up == D - v.places
           t == Ten[up - 2]
           q == RoundQuotient(v.int * Ten[up], 100, "half_up")
<1>1. up \in Nat /\ up - 2 \in Nat /\ up >= 0 /\ D + 0 - v.places = up
  BY <1>0
<1>2. DivRound(v, Number(100, 0), D) = Number(q, D)
  BY <1>1 DEF DivRound, Number
<1>3. t \in Nat /\ Ten[up] = t * 100
  <2>1. Ten[2] = 100
    <3>1. Ten[0 + 1] = 10 * Ten[0] /\ Ten[1 + 1] = 10 * Ten[1] /\ Ten[0] = 1
      BY TenIs
    <3> QED BY <3>1
  <2> DEFINE k == up - 2
  <2>3. k \in Nat /\ k + 2 = up
    BY <1>1
  <2> HIDE DEF k
  <2>4. Ten[k + 2] = Ten[k] * Ten[2] /\ Ten[k] \in Nat
    BY <2>3, TenIs, TenSum
  <2>5. Ten[up] = Ten[k] * 100
    BY <2>1, <2>3, <2>4
  <2> QED BY <2>4, <2>5 DEF k
<1>4. v.int * Ten[up] = (v.int * t) * 100 /\ v.int * t \in Int
  <2> DEFINE i == v.int
  <2>1. i \in Int
    BY <1>0
  <2> HIDE DEF i, t
  <2>2. i * (t * 100) = (i * t) * 100 /\ i * t \in Int
    BY <1>3, <2>1
  <2> QED BY <1>3, <2>2 DEF i
<1> DEFINE n == v.int * t
           e == n * 100
<1>5. n \in Int /\ e \in Int /\ q = RoundQuotient(e, 100, "half_up")
  BY <1>4
<1> HIDE DEF q, n
<1>6. q \in Int /\ RoundsTo(e, 100, q, "half_up")
  BY <1>5, RoundQuotientRounds
<1>7. RoundsTo(e, 100, n, "half_up")
  BY <1>5, RoundsExact
<1>8. q <= n /\ n <= q
  BY <1>5, <1>6, <1>7, RoundingInOrder DEF RoundingModes
<1>9. q = n
  BY <1>5, <1>6, <1>8
<1> QED BY <1>2, <1>9 DEF n

\* A configuration that was accepted.
FittingConfig(config) ==
  config.scale \in Nat /\ config.precision \in Nat /\ config.mode \in RoundingModes

LEMMA RoundedAt ==
  ASSUME NEW v \in Operands, NEW config, FittingConfig(config),
         NEW K \in Int, v.places <= K, config.scale <= K,
         ~Failed(NormalizeDecimal(v, config))
  PROVE  RoundsTo(At(v, K), Ten[K - config.scale], NormalizeDecimal(v, config).value,
                  config.mode)
<1>1. NormalizeDecimal(v, config).value = roundDecimal(v, config.scale, config.mode)
  BY NormalizedFits DEF FittingConfig
<1>2. RoundsTo(At(v, K), Ten[K - config.scale], roundDecimal(v, config.scale, config.mode),
               config.mode)
  BY RoundDecimalRounds DEF FittingConfig
<1> QED BY <1>1, <1>2

LEMMA CalculateIs ==
  ASSUME NEW l \in Operands, NEW r \in Operands, NEW config, NEW operation,
         operation = "divide" => r.int # 0
  PROVE  calculateDecimal(l, r, config, operation) =
           NormalizeDecimal(Result(l, r, config, operation), config)
<1>1. l # NaN /\ r # NaN
  BY NormalizeIs
<1> QED BY <1>1 DEF calculateDecimal

\* The product at the places of the percentage.
LEMMA PercentageRounds ==
  ASSUME NEW v \in Operands, NEW config, FittingConfig(config),
         NEW D \in Nat, v.places + 2 <= D,
         NEW K \in Int, v.places + 2 <= K, config.scale <= K,
         ~Failed(NormalizeDecimal(DivRound(v, Number(100, 0), D), config))
  PROVE  RoundsTo(At(v, K - 2), Ten[K - config.scale],
                  NormalizeDecimal(DivRound(v, Number(100, 0), D), config).value, config.mode)
<1> DEFINE R == DivRound(v, Number(100, 0), D)
           k == D - v.places - 2
           W == Number(v.int, v.places + 2)
           L == Larger(K, D)
<1>0. v.int \in Int /\ v.places \in Int
  BY DEF Operands
<1>1. W \in Operands /\ W.int = v.int /\ W.places = v.places + 2
  BY <1>0 DEF Operands, Number
<1>2. k \in Nat /\ L \in Int /\ K <= L /\ D <= L
  BY <1>0 DEF Larger
<1>3. R = Number(v.int * Ten[k], D)
  BY HundredthAt
<1>4. Ten[k] \in Nat /\ v.int * Ten[k] \in Int
  <2>1. Ten[k] \in Nat
    BY <1>2, TenIs
  <2> HIDE DEF k
  <2> QED BY <1>0, <2>1
<1>5. R \in Operands /\ R.int = v.int * Ten[k] /\ R.places = D
  BY <1>3, <1>4 DEF Operands, Number
<1>6. At(R, L) = At(W, L)
  <2> DEFINE i == v.int
             t == Ten[k]
             u == Ten[L - D]
             h == L - D
             j == L - (v.places + 2)
  <2>1. h \in Nat /\ k + h = j
    BY <1>0, <1>2
  <2>2. Ten[j] = t * u /\ u \in Nat
    <3>1. Ten[k + h] = Ten[k] * Ten[h] /\ Ten[h] \in Nat
      <4> HIDE DEF k, h
      <4> QED BY <1>2, <2>1, TenIs, TenSum
    <3> QED BY <2>1, <3>1
  <2>3. At(R, L) = (i * t) * u /\ At(W, L) = i * Ten[j]
    BY <1>1, <1>5 DEF At
  <2>4. i \in Int /\ t \in Nat
    BY <1>0, <1>4
  <2> HIDE DEF i, t, u, j
  <2>5. (i * t) * u = i * (t * u)
    BY <2>2, <2>4
  <2> QED BY <2>2, <2>3, <2>5
<1> HIDE DEF R, W, L, k
<1>7. roundDecimal(R, config.scale, config.mode) = roundDecimal(W, config.scale, config.mode)
  <2>1. W.places <= L /\ R.places <= L /\ config.scale <= L
    BY <1>0, <1>1, <1>2, <1>5 DEF FittingConfig
  <2> QED BY <1>1, <1>2, <1>5, <1>6, <2>1, SameValue DEF FittingConfig
<1>8. NormalizeDecimal(R, config).value = roundDecimal(W, config.scale, config.mode)
  BY <1>5, <1>7, NormalizedFits DEF FittingConfig, R
<1>9. RoundsTo(At(W, K), Ten[K - config.scale], roundDecimal(W, config.scale, config.mode),
               config.mode)
  BY <1>1, RoundDecimalRounds DEF FittingConfig
<1>10. At(W, K) = At(v, K - 2)
  <2>1. K - (v.places + 2) = (K - 2) - v.places
    BY <1>0
  <2> QED BY <1>1, <2>1 DEF At
<1> QED BY <1>8, <1>9, <1>10 DEF R

-----------------------------------------------------------------------------
(* The quotient, which is rounded twice.                                   *)

LEMMA MagnitudeIs ==
  ASSUME NEW n \in Int
  PROVE  /\ Magnitude(n) \in Nat /\ (n >= 0 => Magnitude(n) = n) /\ (n < 0 => Magnitude(n) = -n)
         /\ n # 0 => Magnitude(n) > 0
BY DEF Magnitude

LEMMA MagnitudeTimes ==
  ASSUME NEW n \in Int, NEW d \in Int
  PROVE  Magnitude(n * d) = Magnitude(n) * Magnitude(d)
<1>1. ASSUME NEW a \in Nat, NEW b \in Nat
      PROVE  a * b \in Nat /\ (-a) * b = -(a * b) /\ a * (-b) = -(a * b) /\ (-a) * (-b) = a * b
  OBVIOUS
<1> DEFINE a == Magnitude(n)
           b == Magnitude(d)
<1>2. a \in Nat /\ b \in Nat /\ (n = a \/ n = -a) /\ (d = b \/ d = -b)
  BY MagnitudeIs
<1> HIDE DEF a, b
<1>3. n * d \in Int /\ (n * d = a * b \/ n * d = -(a * b)) /\ a * b \in Nat
  BY <1>1, <1>2
<1>4. Magnitude(n * d) = a * b
  <2> DEFINE e == n * d
             f == a * b
  <2>1. e \in Int /\ (e = f \/ e = -f) /\ f \in Nat
    BY <1>3
  <2> HIDE DEF e, f
  <2>2. Magnitude(e) = f
    BY <2>1 DEF Magnitude
  <2> QED BY <2>2 DEF e, f
<1> QED BY <1>4 DEF a, b

\* Half away from zero is at most half a unit off, also for a negative divisor.
LEMMA HalfOff ==
  ASSUME NEW num \in Int, NEW den \in Int, den # 0
  PROVE  LET s == RoundQuotient(num, den, "half_up") IN
         s \in Int /\ 2 * Magnitude(s * den - num) <= Magnitude(den)
<1> DEFINE s == RoundQuotient(num, den, "half_up")
           n == Signed(den, 1) * num
           d == Magnitude(den)
<1>1. n \in Int /\ d \in Nat /\ d > 0
  BY DEF Signed, Magnitude
<1>2. s = RoundQuotient(n, d, "half_up")
  <2>1. Signed(d, 1) = 1 /\ Magnitude(d) = d /\ 1 * n = n
    BY <1>1 DEF Signed, Magnitude
  <2>2. Signed(d, 1) * n = n
    <3> HIDE DEF n, d
    <3> QED BY <2>1
  <2>3. RoundQuotient(n, d, "half_up") =
          Signed(n, (Magnitude(n) \div d) + IF Away(n, Magnitude(n) \div d, Magnitude(n) % d, d, "half_up")
                                            THEN 1 ELSE 0)
    <3> HIDE DEF n, d
    <3> QED BY <2>1, <2>2 DEF RoundQuotient
  <2> QED BY <2>3 DEF RoundQuotient
<1>3. s \in Int /\ RoundsTo(n, d, s, "half_up")
  <2> HIDE DEF n, d, s
  <2> QED BY <1>1, <1>2, RoundQuotientRounds
<1>4. 2 * Magnitude(s * d - n) <= d
  BY <1>3 DEF RoundsTo
<1> HIDE DEF s
<1>5. Magnitude(s * d - n) = Magnitude(s * den - num)
  <2>1. CASE den > 0
    <3>1. d = den /\ n = num
      BY <2>1 DEF Signed, Magnitude
    <3> HIDE DEF d, n
    <3> QED BY <3>1
  <2>2. CASE den < 0
    <3>1. d = -den /\ n = -num
      BY <2>2 DEF Signed, Magnitude
    <3> HIDE DEF d, n
    <3> DEFINE e == s * den - num
    <3>2. s * d - n = -e /\ e \in Int
      BY <1>3, <3>1
    <3> HIDE DEF e
    <3>3. Magnitude(-e) = Magnitude(e)
      BY <3>2 DEF Magnitude
    <3> QED BY <3>2, <3>3 DEF e
  <2> QED BY <2>1, <2>2
<1> QED BY <1>3, <1>4, <1>5 DEF s

\* Half a unit of the guard places and less than a unit of the scale are
\* together less than a unit of the scale.
LEMMA RoundedTwice ==
  ASSUME NEW g \in Nat, g > 0, NEW c \in Nat, c > 0, NEW D \in Int, D # 0, NEW N \in Int,
         NEW s \in Int, NEW m \in Int, 2 * Magnitude(s * D - N) <= Magnitude(D),
         Magnitude(m * g - s) < g,
         NEW Y \in Int, Y = D * c, NEW X \in Int, X * g = N * c
  PROVE  Magnitude(m * Y - X) <= Magnitude(Y)
<1> DEFINE e == m * g - s
           f == s * D - N
           E == (m * g) * D - N
           d == Magnitude(D)
           ae == Magnitude(e)
           af == Magnitude(f)
           h == e * D
<1>1. e \in Int /\ f \in Int /\ h \in Int /\ E \in Int /\ E = h + f
  OBVIOUS
<1>2. d \in Nat /\ d > 0 /\ ae \in Nat /\ af \in Nat /\ ae < g /\ 2 * af <= d
  BY <1>1, MagnitudeIs
<1>3. Magnitude(h) = ae * d
  BY <1>1, MagnitudeTimes
<1>4. Magnitude(E) <= ae * d + af
  <2>1. Magnitude(h) \in Nat /\ (h = Magnitude(h) \/ h = -Magnitude(h))
    BY <1>1, MagnitudeIs
  <2>2. f = af \/ f = -af
    BY <1>1, MagnitudeIs
  <2> HIDE DEF h, f, E, af
  <2>3. Magnitude(E) <= Magnitude(h) + af
    <3>1. E = h + f /\ (E = Magnitude(E) \/ E = -Magnitude(E)) /\ Magnitude(E) \in Nat
      BY <1>1, MagnitudeIs
    <3> QED BY <1>1, <1>2, <2>1, <2>2, <3>1
  <2> QED BY <1>3, <2>3
<1>5. Magnitude(E) < g * d
  <2> DEFINE M == Magnitude(E)
  <2>1. M \in Nat
    BY <1>1, MagnitudeIs
  <2> HIDE DEF M, ae, af, d
  <2>2. (g - ae) * d >= d
    <3> DEFINE k == g - ae
    <3>1. k \in Nat /\ k >= 1
      BY <1>2
    <3> HIDE DEF k
    <3>2. k * d >= d
      BY <1>2, <3>1
    <3> QED BY <3>2 DEF k
  <2>3. (g - ae) * d = g * d - ae * d /\ g * d \in Int /\ ae * d \in Int
    BY <1>2
  <2>4. M <= ae * d + af
    BY <1>4 DEF M
  <2>5. M < g * d
    BY <1>2, <2>1, <2>2, <2>3, <2>4
  <2> QED BY <2>5 DEF M
<1> DEFINE F == m * Y - X
<1>6. F * g = E * c /\ F \in Int
  <2>1. F * g = (m * Y) * g - X * g /\ F \in Int
    OBVIOUS
  <2>2. (m * Y) * g = ((m * g) * D) * c
    OBVIOUS
  <2>3. E * c = ((m * g) * D) * c - N * c
    OBVIOUS
  <2> HIDE DEF F, E
  <2> QED BY <2>1, <2>2, <2>3
<1>7. Magnitude(F) * g = Magnitude(E) * c
  <2>1. Magnitude(g) = g /\ Magnitude(c) = c
    BY MagnitudeIs
  <2>2. Magnitude(F * g) = Magnitude(F) * Magnitude(g)
    <3> HIDE DEF F
    <3> QED BY <1>6, MagnitudeTimes
  <2>3. Magnitude(E * c) = Magnitude(E) * Magnitude(c)
    <3> HIDE DEF E
    <3> QED BY <1>1, MagnitudeTimes
  <2> QED BY <1>6, <2>1, <2>2, <2>3
<1>8. Magnitude(Y) = d * c
  <2>1. Magnitude(c) = c
    BY MagnitudeIs
  <2> QED BY <2>1, MagnitudeTimes
<1>9. Magnitude(E) * c < (g * d) * c
  <2> DEFINE p == Magnitude(E)
             q == g * d
  <2>1. p \in Int /\ q \in Int /\ p < q
    <3> HIDE DEF E, d
    <3> QED BY <1>1, <1>2, <1>5, MagnitudeIs
  <2> HIDE DEF p, q
  <2>2. p * c < q * c
    BY <2>1, TimesInOrder
  <2> QED BY <2>2 DEF p, q
<1> DEFINE p == Magnitude(F)
           q == Magnitude(Y)
<1>10. p \in Nat /\ q \in Nat
  <2> HIDE DEF F
  <2> QED BY <1>6, MagnitudeIs
<1>11. p * g < q * g
  <2> HIDE DEF d, E, F
  <2>1. (g * d) * c = (d * c) * g
    BY <1>2
  <2> QED BY <1>7, <1>8, <1>9, <2>1
<1> HIDE DEF p, q
<1>12. p < q
  BY <1>10, <1>11, TimesInOrder
<1> QED BY <1>10, <1>12 DEF p, q, F

\* DivRound divides N by D, and N / D is the quotient of the values X and Y
\* at G more places than the scale.
ScaledQuotient(x, y, scale, G, K) ==
  LET s == DivRound(x, y, scale + G).int
      X == At(x, K) * Ten[scale]
      Y == At(y, K)
  IN  \E c, g \in Nat, D, N \in Int :
        /\ c > 0 /\ g > 0 /\ g = Ten[G] /\ D # 0 /\ s = RoundQuotient(N, D, "half_up")
        /\ X \in Int /\ Y \in Int /\ Y = D * c /\ X * g = N * c

LEMMA QuotientScale ==
  ASSUME NEW x \in Operands, NEW y \in Operands, y.int # 0,
         NEW scale \in Nat, NEW G \in Nat,
         NEW K \in Int, x.places <= K, y.places <= K
  PROVE  ScaledQuotient(x, y, scale, G, K)
<1> DEFINE P == scale + G
           up == P + y.places - x.places
           i == x.int
           j == y.int
           g == Ten[G]
           S == Ten[scale]
           tx == Ten[K - x.places]
           ty == Ten[K - y.places]
           s == DivRound(x, y, P).int
           X == At(x, K) * S
           Y == At(y, K)
           c == Ten[(K - x.places) + P]
<1>1. x.places \in Int /\ y.places \in Int /\ i \in Int /\ j \in Int /\ j # 0
  BY DEF Operands
<1>2. /\ P \in Nat /\ up \in Int /\ K - x.places \in Nat /\ K - y.places \in Nat
      /\ (K - x.places) + P \in Nat
  BY <1>1
<1>3. /\ g \in Nat /\ g > 0 /\ S \in Nat /\ tx \in Nat /\ ty \in Nat /\ ty > 0
      /\ c \in Nat /\ c > 0
  BY <1>2, TenIs
<1>4. X = (i * tx) * S /\ Y = j * ty
  BY DEF At
<1>5. c = tx * (S * g)
  <2>1. Ten[scale + G] = S * g
    BY TenSum
  <2> DEFINE k == K - x.places
  <2>2. k \in Nat
    BY <1>2
  <2> HIDE DEF k
  <2>3. Ten[k + P] = Ten[k] * Ten[P]
    BY <1>2, <2>2, TenSum
  <2> QED BY <2>1, <2>3 DEF k
<1>6. X * g = i * c /\ X \in Int /\ Y \in Int
  <2> HIDE DEF c, tx, ty, S, g, i, j, X, Y
  <2>1. ((i * tx) * S) * g = i * (tx * (S * g)) /\ (i * tx) * S \in Int /\ j * ty \in Int
    BY <1>1, <1>3
  <2> QED BY <1>4, <1>5, <2>1
<1>7. CASE up >= 0
  <2> DEFINE t == Ten[up]
             N == i * t
  <2>1. s = RoundQuotient(N, j, "half_up")
    BY <1>7 DEF DivRound, Number
  <2>2. t \in Nat /\ N \in Int
    <3>1. t \in Nat
      BY <1>2, <1>7, TenIs
    <3> HIDE DEF t, i
    <3> QED BY <1>1, <3>1
  <2>3. c = t * ty
    <3> DEFINE k == K - y.places
    <3>1. k \in Nat /\ up \in Nat /\ up + k = (K - x.places) + P
      BY <1>1, <1>2, <1>7
    <3> HIDE DEF k, up
    <3>2. Ten[up + k] = Ten[up] * Ten[k]
      BY <3>1, TenSum
    <3> QED BY <3>1, <3>2 DEF k
  <2>4. X * g = N * ty
    <3> HIDE DEF c, t, ty, i, X, g
    <3>1. i * (t * ty) = (i * t) * ty
      BY <1>1, <1>3, <2>2
    <3> QED BY <1>6, <2>3, <3>1
  <2> HIDE DEF N, g, X, Y, s, ty, j
  <2>5. \E c_1, g_1 \in Nat, D, N_1 \in Int :
          /\ c_1 > 0 /\ g_1 > 0 /\ g_1 = Ten[G] /\ D # 0 /\ s = RoundQuotient(N_1, D, "half_up")
          /\ X \in Int /\ Y \in Int /\ Y = D * c_1 /\ X * g_1 = N_1 * c_1
    <3>1. g = Ten[G]
      BY DEF g
    <3> QED BY <1>1, <1>3, <1>4, <1>6, <2>1, <2>2, <2>4, <3>1
  <2> QED BY <2>5 DEF s, X, Y, ScaledQuotient
<1>8. CASE up < 0
  <2> DEFINE t == Ten[-up]
             D == j * t
  <2>1. s = RoundQuotient(i, D, "half_up")
    BY <1>2, <1>8 DEF DivRound, Number
  <2>2. t \in Nat /\ t > 0
    BY <1>2, <1>8, TenIs
  <2>3. D \in Int /\ D # 0
    <3> HIDE DEF t, j
    <3>1. j * t \in Int /\ (j > 0 <=> j * t > 0) /\ (j < 0 <=> j * t < 0)
      BY <1>1, <2>2, TimesInOrder
    <3> QED BY <1>1, <3>1
  <2>4. ty = t * c
    <3> DEFINE k == (K - x.places) + P
               v == -up
    <3>1. k \in Nat /\ v \in Nat /\ v + k = K - y.places
      BY <1>1, <1>2, <1>8
    <3> HIDE DEF k, v
    <3>2. Ten[v + k] = Ten[v] * Ten[k]
      BY <3>1, TenSum
    <3> QED BY <3>1, <3>2 DEF k, v
  <2>5. Y = D * c
    <3> HIDE DEF c, t, ty, j, Y
    <3>1. j * (t * c) = (j * t) * c
      BY <1>1, <1>3, <2>2
    <3> QED BY <1>4, <2>4, <3>1
  <2> HIDE DEF D, g, X, Y, s, c, i
  <2>6. \E c_1, g_1 \in Nat, D_1, N \in Int :
          /\ c_1 > 0 /\ g_1 > 0 /\ g_1 = Ten[G] /\ D_1 # 0 /\ s = RoundQuotient(N, D_1, "half_up")
          /\ X \in Int /\ Y \in Int /\ Y = D_1 * c_1 /\ X * g_1 = N * c_1
    <3>1. g = Ten[G]
      BY DEF g
    <3> QED BY <1>1, <1>3, <1>6, <2>1, <2>3, <2>5, <3>1
  <2> QED BY <2>6 DEF s, X, Y, ScaledQuotient
<1> QED BY <1>2, <1>7, <1>8

\* A quotient is less than one minor unit off.
LEMMA QuotientOff ==
  ASSUME NEW x \in Operands, NEW y \in Operands, NEW config, FittingConfig(config),
         GuardPlaces \in Nat,
         NEW K \in Int, x.places <= K, y.places <= K,
         ~Failed(calculateDecimal(x, y, config, "divide"))
  PROVE  Magnitude(calculateDecimal(x, y, config, "divide").value * At(y, K)
                     - At(x, K) * Ten[config.scale])
           <= Magnitude(At(y, K))
<1>1. y.int # 0
  <2>1. x # NaN /\ y # NaN
    BY NormalizeIs
  <2> QED BY <2>1 DEF calculateDecimal, Failed, Error
<1> DEFINE P == config.scale + GuardPlaces
           R == DivRound(x, y, P)
           s == R.int
           m == calculateDecimal(x, y, config, "divide").value
           X == At(x, K) * Ten[config.scale]
           Y == At(y, K)
<1>2. calculateDecimal(x, y, config, "divide") = NormalizeDecimal(R, config)
  BY <1>1, CalculateIs DEF Result
<1>3. config.scale \in Nat /\ P \in Nat
  BY DEF FittingConfig
<1>4. PICK c \in Nat, g \in Nat, D \in Int, N \in Int :
        /\ c > 0 /\ g > 0 /\ g = Ten[GuardPlaces] /\ D # 0
        /\ s = RoundQuotient(N, D, "half_up")
        /\ X \in Int /\ Y \in Int /\ Y = D * c /\ X * g = N * c
  <2>1. ScaledQuotient(x, y, config.scale, GuardPlaces, K)
    BY <1>1, <1>3, QuotientScale
  <2> QED BY <2>1 DEF ScaledQuotient
<1>5. s \in Int /\ 2 * Magnitude(s * D - N) <= Magnitude(D)
  <2> HIDE DEF s
  <2> QED BY <1>4, HalfOff
<1>6. R = [int |-> s, places |-> P] /\ R \in Operands
  <2>1. R = [int |-> s, places |-> P]
    BY DEF DivRound, Number
  <2> HIDE DEF R, s
  <2>2. [int |-> s, places |-> P] \in Operands
    BY <1>3, <1>5 DEF Operands
  <2> QED BY <2>1, <2>2
<1>7. m = roundDecimal(R, config.scale, config.mode) /\ m \in Int
  <2> HIDE DEF R
  <2> QED BY <1>2, <1>3, <1>6, NormalizedFits DEF FittingConfig
<1>8. RoundsTo(s, g, m, config.mode)
  <2>1. R.places = P /\ R.int = s
    BY <1>6
  <2> HIDE DEF R, s
  <2>2. R.places <= P /\ config.scale <= P /\ P \in Int
    BY <1>3, <2>1
  <2>3. RoundsTo(At(R, P), Ten[P - config.scale], roundDecimal(R, config.scale, config.mode),
                 config.mode)
    BY <1>3, <1>6, <2>2, RoundDecimalRounds
  <2>4. P - config.scale = GuardPlaces /\ P - P = 0
    BY <1>3
  <2>5. At(R, P) = s
    <3>1. At(R, P) = s * 1
      BY <2>1, <2>4, TenIs DEF At
    <3> QED BY <1>5, <3>1
  <2> HIDE DEF m, P
  <2> QED BY <1>4, <1>7, <2>3, <2>4, <2>5
<1>9. Magnitude(m * g - s) < g
  BY <1>8 DEF RoundsTo
<1> HIDE DEF m, s, X, Y
<1>10. Magnitude(m * Y - X) <= Magnitude(Y)
  BY <1>4, <1>5, <1>7, <1>9, RoundedTwice
<1> QED BY <1>10 DEF m, X, Y

\* Subtracting undoes adding for values already stored.
LEMMA SumUndone ==
  ASSUME NEW x \in Operands, NEW y \in Operands, NEW config, FittingConfig(config),
         x.places <= config.scale, y.places <= config.scale,
         ~Failed(calculateDecimal(x, y, config, "add"))
  PROVE  calculateDecimal(Parsed(calculateDecimal(x, y, config, "add").value, config), y,
                          config, "subtract")
           = NormalizeDecimal(x, config)
<1> DEFINE k == config.scale
           sum == calculateDecimal(x, y, config, "add")
           R == Result(x, y, config, "add")
           v == Parsed(sum.value, config)
           Q == Result(v, y, config, "subtract")
<1>0. x.places \in Int /\ y.places \in Int /\ k \in Nat /\ x.int \in Int /\ y.int \in Int
  BY DEF Operands, FittingConfig
<1>1. sum = NormalizeDecimal(R, config)
  BY CalculateIs
<1>2. R \in Operands /\ R.places <= k /\ At(R, k) = At(x, k) + At(y, k)
  <2>1. R = Number(At(x, Larger(x.places, y.places)) + At(y, Larger(x.places, y.places)),
                   Larger(x.places, y.places))
    BY DEF Result
  <2> QED BY <1>0, <2>1, SumAt
<1>3. roundDecimal(R, k, config.mode) = At(R, k) /\ roundDecimal(x, k, config.mode) = At(x, k)
  BY <1>2 DEF roundDecimal, At
<1>4. sum.value = At(x, k) + At(y, k)
  <2> HIDE DEF R
  <2> QED BY <1>0, <1>1, <1>2, <1>3, NormalizedFits DEF FittingConfig
<1>5. At(x, k) \in Int /\ At(y, k) \in Int
  BY <1>0, AtMore
<1>6. v = [int |-> At(x, k) + At(y, k), places |-> k]
  BY <1>4 DEF Parsed, Number
<1> HIDE DEF v, sum, R
<1>7. v \in Operands /\ v.places = k /\ v.int = At(x, k) + At(y, k)
  BY <1>0, <1>5, <1>6 DEF Operands
<1>8. Larger(v.places, y.places) = k
  BY <1>0, <1>7 DEF Larger
<1>9. Ten[k - k] = 1
  <2>1. k - k = 0
    BY <1>0
  <2> QED BY <2>1, TenIs
<1>10. At(v, k) - At(y, k) = At(x, k)
  <2>1. At(v, k) = (At(x, k) + At(y, k)) * 1
    BY <1>7, <1>9 DEF At
  <2> QED BY <1>5, <2>1
<1>11. Q = [int |-> At(x, k), places |-> k]
  <2>1. Q = Number(At(v, k) - At(y, k), k)
    BY <1>8 DEF Result
  <2> QED BY <1>10, <2>1 DEF Number
<1>12. calculateDecimal(v, y, config, "subtract") = NormalizeDecimal(Q, config)
  BY <1>7, CalculateIs
<1> HIDE DEF Q
<1>13. Q \in Operands /\ roundDecimal(Q, k, config.mode) = At(x, k)
  <2>1. Q.places = k /\ Q.int = At(x, k) /\ Q \in Operands
    BY <1>0, <1>5, <1>11 DEF Operands
  <2>2. roundDecimal(Q, k, config.mode) = At(x, k) * 1
    BY <1>0, <1>9, <2>1 DEF roundDecimal
  <2> QED BY <1>5, <2>1, <2>2
<1>14. NormalizeDecimal(Q, config) = NormalizeDecimal(x, config)
  BY <1>3, <1>13, NormalizeIs
<1> QED BY <1>12, <1>14 DEF v, sum

LEMMA CalculationsRound ==
  ASSUME NEW x \in Operands, NEW y \in Operands, NEW config, FittingConfig(config),
         GuardPlaces \in Nat, DivisionPlaces \in Nat
  PROVE  RoundedOnce(x, y, config)
<1> DEFINE calc(op) == calculateDecimal(x, y, config, op)
           P == Larger(x.places, y.places)
           K == Larger(Larger(x.places, 0) + Larger(y.places, 0) + 2, config.scale)
           product == Number(x.int * y.int, x.places + y.places)
           exact == [add |-> At(x, K) + At(y, K),
                     subtract |-> At(x, K) - At(y, K),
                     multiply |-> At(product, K),
                     percentage |-> At(product, K - 2)]
           unit == Ten[K - config.scale]
           sum == calc("add")
           back == calculateDecimal(Parsed(sum.value, config), y, config, "subtract")
<1>0. x.places \in Int /\ y.places \in Int /\ x.int \in Int /\ y.int \in Int /\ config.scale \in Nat
  BY DEF Operands, FittingConfig
<1>1. /\ K \in Int /\ x.places <= K /\ y.places <= K /\ config.scale <= K
      /\ x.places + y.places + 2 <= K
  BY <1>0 DEF Larger
<1>2. product \in Operands /\ product.places = x.places + y.places
  <2>1. x.int * y.int \in Int
    BY <1>0
  <2> QED BY <1>0, <2>1 DEF Operands, Number
<1>3. ~Failed(calc("add")) => RoundsTo(At(x, K) + At(y, K), unit, calc("add").value, config.mode)
  <2> DEFINE R == Number(At(x, P) + At(y, P), P)
  <2> HIDE DEF K
  <2>1. calc("add") = NormalizeDecimal(R, config)
    BY CalculateIs DEF Result
  <2>2. R \in Operands /\ R.places <= K /\ At(R, K) = At(x, K) + At(y, K)
    BY <1>1, SumAt
  <2> HIDE DEF R
  <2>3. ~Failed(NormalizeDecimal(R, config)) =>
          RoundsTo(At(R, K), unit, NormalizeDecimal(R, config).value, config.mode)
    BY <1>1, <2>2, RoundedAt
  <2> QED BY <2>1, <2>2, <2>3
<1>4. ~Failed(calc("subtract")) =>
        RoundsTo(At(x, K) - At(y, K), unit, calc("subtract").value, config.mode)
  <2> DEFINE R == Number(At(x, P) - At(y, P), P)
  <2> HIDE DEF K
  <2>1. calc("subtract") = NormalizeDecimal(R, config)
    BY CalculateIs DEF Result
  <2>2. R \in Operands /\ R.places <= K /\ At(R, K) = At(x, K) - At(y, K)
    BY <1>1, SumAt
  <2> HIDE DEF R
  <2>3. ~Failed(NormalizeDecimal(R, config)) =>
          RoundsTo(At(R, K), unit, NormalizeDecimal(R, config).value, config.mode)
    BY <1>1, <2>2, RoundedAt
  <2> QED BY <2>1, <2>2, <2>3
<1>5. ~Failed(calc("multiply")) => RoundsTo(At(product, K), unit, calc("multiply").value, config.mode)
  <2>1. calc("multiply") = NormalizeDecimal(product, config)
    BY CalculateIs DEF Result
  <2> HIDE DEF K, product
  <2>2. product.places <= K
    BY <1>0, <1>1, <1>2
  <2>3. ~Failed(NormalizeDecimal(product, config)) =>
          RoundsTo(At(product, K), unit, NormalizeDecimal(product, config).value, config.mode)
    BY <1>1, <1>2, <2>2, RoundedAt
  <2> QED BY <2>1, <2>3
<1>6. ~Failed(calc("percentage")) /\ product.places + 2 <= DivisionPlaces =>
        RoundsTo(At(product, K - 2), unit, calc("percentage").value, config.mode)
  <2>1. calc("percentage") = NormalizeDecimal(DivRound(product, Number(100, 0), DivisionPlaces), config)
    BY CalculateIs DEF Result
  <2> HIDE DEF K, product
  <2>2. product.places + 2 <= K
    BY <1>1, <1>2
  <2> QED BY <1>1, <1>2, <2>1, <2>2, PercentageRounds
<1>7. ASSUME NEW op \in DOMAIN exact, ~Failed(calc(op)),
             op = "percentage" => product.places + 2 <= DivisionPlaces
      PROVE  RoundsTo(exact[op], unit, calc(op).value, config.mode)
  <2>1. op \in {"add", "subtract", "multiply", "percentage"}
    OBVIOUS
  <2> HIDE DEF calc, K, product, unit
  <2>2. /\ exact["add"] = At(x, K) + At(y, K) /\ exact["subtract"] = At(x, K) - At(y, K)
        /\ exact["multiply"] = At(product, K) /\ exact["percentage"] = At(product, K - 2)
    OBVIOUS
  <2> HIDE DEF exact
  <2> QED BY <1>3, <1>4, <1>5, <1>6, <1>7, <2>1, <2>2
<1>8. ~Failed(calc("divide")) =>
        Magnitude(calc("divide").value * At(y, K) - At(x, K) * Ten[config.scale])
          <= Magnitude(At(y, K))
  <2> HIDE DEF K
  <2> QED BY <1>1, QuotientOff
<1>9. x.places <= config.scale /\ y.places <= config.scale /\ ~Failed(sum) /\ ~Failed(back)
        => back = NormalizeDecimal(x, config)
  BY SumUndone
<1> QED BY <1>7, <1>8, <1>9 DEF RoundedOnce

LEMMA ConfigAccepted ==
  ASSUME NEW raw, raw.precision \in Int, raw.scale \in Int, ScaleModulus \in Nat \ {0},
         MaxPrecision \in Nat, ~Failed(NormalizeDecimalConfig(raw))
  PROVE  FittingConfig(NormalizeDecimalConfig(raw).value)
<1> DEFINE scale == Int32(raw.scale)
           r == raw.scale % ScaleModulus
           h == ScaleModulus \div 2
<1>1. scale \in Int
  <2>1. r \in Int /\ h \in Int
    OBVIOUS
  <2> HIDE DEF r, h
  <2> QED BY <2>1 DEF Int32, r, h
<1> HIDE DEF scale
<1>2. /\ raw.precision \in 1..MaxPrecision /\ ~(scale < 0 \/ scale > raw.precision)
      /\ raw.mode \in RoundingModes
      /\ NormalizeDecimalConfig(raw).value =
           [precision |-> raw.precision, scale |-> scale, mode |-> raw.mode]
  BY DEF NormalizeDecimalConfig, Failed, Error, Ok, scale
<1> QED BY <1>1, <1>2 DEF FittingConfig

\* DecimalsAreExact, for all operands, configurations and bounds.
THEOREM DecimalsStayExact == DecimalSpec => []DecimalsAreExact
<1>1. calculation \in Calculations => DecimalsAreExact
  <2> SUFFICES ASSUME calculation \in Calculations,
                      ~Failed(NormalizeDecimalConfig(calculation.raw))
               PROVE  /\ OrderedEncoding(calculation.x, calculation.y,
                                         NormalizeDecimalConfig(calculation.raw).value)
                      /\ RoundedOnce(calculation.x, calculation.y,
                                     NormalizeDecimalConfig(calculation.raw).value)
    BY DEF DecimalsAreExact
  <2> DEFINE config == NormalizeDecimalConfig(calculation.raw).value
  <2>1. /\ GuardPlaces \in Nat /\ DivisionPlaces \in Nat /\ ScaleModulus \in Nat \ {0}
        /\ MaxPrecision \in Nat
        /\ calculation.x \in Operands /\ calculation.y \in Operands
        /\ calculation.raw.precision \in Int /\ calculation.raw.scale \in Int
    BY DecimalAssumption DEF Operands
  <2>2. FittingConfig(config)
    BY <2>1, ConfigAccepted
  <2> HIDE DEF config
  <2>3. OrderedEncoding(calculation.x, calculation.y, config)
    BY <2>1, <2>2, EncodingKeepsOrder DEF FittingConfig
  <2>4. RoundedOnce(calculation.x, calculation.y, config)
    BY <2>1, <2>2, CalculationsRound
  <2> QED BY <2>3, <2>4 DEF config
<1>2. DecimalInit => calculation \in Calculations
  BY DEF DecimalInit
<1>3. calculation \in Calculations /\ [UNCHANGED calculation]_calculation
        => (calculation \in Calculations)'
  OBVIOUS
<1> QED BY <1>1, <1>2, <1>3, PTL DEF DecimalSpec
-----------------------------------------------------------------------------
(* Expressions.                                                            *)

\* The values of the numeric kinds are numbers.
Counts(x) ==
  x.type.kind \in {"integer", "decimal"} /\ ~IsNil(x) => x.v.number # NaN

\* What holds of the value x of node i, accepted with a type.
Agrees(x, i, type) ==
  /\ x.type = type \/ Untyped(i)
  /\ IsNil(x) => HasNil(i)
  /\ Counts(x)

\* A sequence of whatever it holds.
Listed(s) == \E S : s \in Seq(S)

ExpressionInv ==
  /\ expression \in Expressions
  /\ Listed(typed) /\ Listed(evaluated)
  /\ Len(typed) <= Len(expression.nodes) /\ Len(evaluated) <= Len(expression.nodes)
  /\ ~Accepted => evaluated = <<>>
  /\ \A i \in 1..Len(typed) :
       expressionValidateAt(expression.nodes[i], typed, expression.types)
         = Ok(typed[i])
  /\ \A i \in 1..Len(evaluated) : Agrees(evaluated[i], i, typed[i])
  /\ Accepted /\ diagnostic # "ok" =>
       Excused(diagnostic, expression.nodes[Len(evaluated) + 1], Len(evaluated))

\* A list stays one when an element is added.
LEMMA ListGrows ==
  ASSUME NEW s, Listed(s), NEW x
  PROVE  /\ Listed(Append(s, x)) /\ Len(s) \in Nat
         /\ Len(Append(s, x)) = Len(s) + 1
         /\ Append(s, x)[Len(s) + 1] = x
         /\ \A i \in 1..Len(s) : Append(s, x)[i] = s[i]
<1>1. PICK S : s \in Seq(S)
  BY DEF Listed
<1>2. s \in Seq(S \cup {x}) /\ x \in S \cup {x}
  BY <1>1
<1>3. Append(s, x) \in Seq(S \cup {x})
  BY <1>2
<1> QED
  BY <1>2, <1>3 DEF Listed

\* Nulls and untyped references that were met remain met.
LEMMA MetBefore ==
  ASSUME NEW i \in Nat, NEW j \in 1..i
  PROVE  (HasNil(j) => HasNil(i)) /\ (Untyped(j) => Untyped(i))
<1>1. {expression.nodes[m] : m \in 1..j} \subseteq {expression.nodes[m] : m \in 1..i}
  OBVIOUS
<1> QED
  BY <1>1 DEF HasNil, Untyped

\* A result is a failure or not.
LEMMA Results ==
  /\ \A v : ~Failed(Ok(v)) /\ Ok(v).code = "ok" /\ Ok(v).value = v
  /\ \A code : Error(code).code = code /\ (Failed(Error(code)) <=> code # "ok")
  /\ \A u, v : Ok(u) = Ok(v) => u = v
  /\ \A code, v : code # "ok" => Error(code) # Ok(v)
<1>1. \A v : Ok(v).code = "ok" /\ Ok(v).value = v
  BY DEF Ok
<1>2. \A code : Error(code).code = code
  BY DEF Error
<1> QED
  BY <1>1, <1>2 DEF Failed

\* What is neither null nor not a number.
LEMMA NotNull ==
  /\ \A kind, number : [reads |-> {kind}, number |-> number] # Nil
  /\ \A items : List(items) # Nil
  /\ \A n, places : Number(n, places) # NaN
<1>1. ASSUME NEW kind, NEW number PROVE [reads |-> {kind}, number |-> number] # Nil
  <2>1. [reads |-> {kind}, number |-> number].reads = {kind} /\ Nil.reads = {}
    BY DEF Nil
  <2> QED
    BY <2>1
<1>2. ASSUME NEW items PROVE List(items) # Nil
  <2>1. List(items).reads = {"list"} /\ Nil.reads = {}
    BY DEF List, Nil
  <2> QED
    BY <2>1
<1>3. ASSUME NEW n, NEW places PROVE Number(n, places) # NaN
  <2>1. "int" \in DOMAIN Number(n, places) /\ "int" \notin DOMAIN NaN
    BY DEF Number, NaN
  <2> QED
    BY <2>1
<1> QED
  BY <1>1, <1>2, <1>3

\* What validation accepts evaluation reads; it reads instants besides.
LEMMA ValidNormalizes ==
  ASSUME NEW v, NEW type, expressionLiteralValid(v, type)
  PROVE  Normalizes(v, type)
<1>1. \A w, kind : Readable(w, kind) => Normalizable(w, kind)
  BY DEF Readable, Normalizable
<1> QED
  BY <1>1 DEF expressionLiteralValid, Normalizes

\* A value that is read has its type after normalization, and is null only if
\* it was.
LEMMA TypedIs ==
  ASSUME NEW v, NEW type, NEW code, IsValue(v), Normalizes(v, type)
  PROVE  \E x : /\ Typed(v, type, code) = Ok(Value(type, x))
                /\ x = Nil => v = Nil
                /\ Counts(Value(type, x))
<1> DEFINE x == expressionNormalizeValue(v, type).value
<1>1. CASE v = Nil
  <2>1. expressionNormalizeValue(v, type) = Ok(Nil)
    BY <1>1 DEF expressionNormalizeValue
  <2>2. Typed(v, type, code) = Ok(Value(type, Nil))
    BY <2>1, Results DEF Typed
  <2>3. IsNil(Value(type, Nil))
    BY DEF IsNil, Value
  <2> QED
    BY <1>1, <2>2, <2>3 DEF Counts
<1>2. CASE v # Nil /\ type.kind = "list"
  <2> DEFINE y == List([i \in DOMAIN v.items |-> Read(v.items[i], type.element)])
  <2>1. expressionNormalizeValue(v, type) = Ok(y)
    BY <1>2 DEF expressionNormalizeValue
  <2>2. Typed(v, type, code) = Ok(Value(type, y))
    BY <2>1, Results DEF Typed
  <2>3. y # Nil /\ Value(type, y).type = type
    BY NotNull DEF Value
  <2> QED
    BY <1>2, <2>2, <2>3 DEF Counts
<1>3. CASE v # Nil /\ type.kind # "list"
  <2> DEFINE y == Read(v, type.kind)
  <2>1. expressionNormalizeValue(v, type) = Ok(y)
    BY <1>3 DEF expressionNormalizeValue
  <2>2. Typed(v, type, code) = Ok(Value(type, y))
    BY <2>1, Results DEF Typed
  <2>3. Value(type, y).type = type /\ Value(type, y).v = y
    BY DEF Value
  <2>4. y # Nil
    BY <1>3, NotNull DEF Read
  <2>5. type.kind = "decimal" => y.number # NaN
    BY <1>3, NotNull DEF Read, Parsed
  <2>6. type.kind = "integer" => y.number # NaN
    <3> SUFFICES ASSUME type.kind = "integer" PROVE y.number # NaN
      OBVIOUS
    <3>1. y.number = v.number
      BY <1>3 DEF Read
    <3>2. "integer" \in v.reads
      BY <1>3 DEF Normalizes, Normalizable
    <3>3. v.number \in [int : Int, places : Int]
      BY <1>3, <3>2 DEF IsValue
    <3>4. v.number = Number(v.number.int, v.number.places)
      BY <3>3 DEF Number
    <3> QED
      BY <3>1, <3>4, NotNull
  <2> QED
    BY <1>3, <2>2, <2>3, <2>4, <2>5, <2>6 DEF Counts
<1> QED
  BY <1>1, <1>2, <1>3

\* Evaluation gives a literal the type validation gave it.
LEMMA LiteralAgrees ==
  ASSUME NEW i \in Nat \ {0}, NEW type, NEW before,
         LET e == expression.nodes[i] IN
           /\ e.kind = "literal" /\ IsValue(e.value)
           /\ expressionValidateAt(e, before, expression.types) = Ok(type)
  PROVE  \A values : \E x :
           /\ expressionEvaluateAt(expression.nodes[i], values, expression.sources,
                                   expression.clock) = Ok(x)
           /\ Agrees(x, i, type)
<1> DEFINE e == expression.nodes[i]
<1> SUFFICES ASSUME NEW values
             PROVE  \E x : /\ expressionEvaluateAt(e, values, expression.sources,
                                                   expression.clock) = Ok(x)
                           /\ Agrees(x, i, type)
  OBVIOUS
<1>1. expressionValidateLiteral(e) = Ok(type)
  BY DEF expressionValidateAt
<1>2. type = e.type /\ expressionLiteralValid(e.value, e.type)
  BY <1>1, Results DEF expressionValidateLiteral
<1>3. PICK x : /\ Typed(e.value, e.type, "literal_invalid") = Ok(Value(e.type, x))
               /\ x = Nil => e.value = Nil
               /\ Counts(Value(e.type, x))
  BY <1>2, ValidNormalizes, TypedIs
<1>4. expressionEvaluateAt(e, values, expression.sources, expression.clock)
        = Ok(Value(type, x))
  BY <1>2, <1>3 DEF expressionEvaluateAt
<1>5. Value(type, x).type = type /\ Value(type, x).v = x
  BY DEF Value
<1>6. e \in {expression.nodes[j] : j \in 1..i}
  OBVIOUS
<1>7. x = Nil => HasNil(i)
  BY <1>3, <1>6 DEF HasNil
<1> QED
  BY <1>2, <1>3, <1>4, <1>5, <1>7 DEF Agrees, IsNil

\* Evaluation gives a reference the declared type, or the reference or its
\* data is to blame.
LEMMA ReferenceAgrees ==
  ASSUME expression \in Expressions,
         NEW i \in Nat \ {0}, NEW type, NEW before, NEW values,
         expression.nodes[i].kind = "reference",
         expressionValidateAt(expression.nodes[i], before, expression.types)
           = Ok(type)
  PROVE  LET r == expressionEvaluateAt(expression.nodes[i], values,
                    expression.sources, expression.clock)
         IN  \/ Failed(r) /\ Excused(r.code, expression.nodes[i], i - 1)
             \/ \E x : r = Ok(x) /\ Agrees(x, i, type)
<1> DEFINE e == expression.nodes[i]
           r == expressionEvaluateAt(e, values, expression.sources, expression.clock)
           v == expression.sources[e.key]
<1>1. expressionValidateReference(e, expression.types) = Ok(type)
  BY DEF expressionValidateAt
<1>2. /\ e.key \in DOMAIN expression.types
      /\ e.declared \in {"", expression.types[e.key].kind}
      /\ type = expression.types[e.key]
  BY <1>1, Results DEF expressionValidateReference
<1>3. IsType(type)
  BY <1>2, ExpressionAssumption
<1>4. r = expressionEvaluateReference(e, expression.sources)
  BY DEF expressionEvaluateAt
<1>5. CASE Missing(e)
  <2>1. r = Error("reference_value_missing")
    BY <1>4, <1>5 DEF expressionEvaluateReference, Missing
  <2> QED
    BY <1>5, <2>1, Results DEF Excused
<1>6. CASE ~Missing(e) /\ ~Normalizes(v, Plain(e.declared))
  <2>1. r = Error("reference_value_invalid")
    BY <1>4, <1>6, Results
    DEF expressionEvaluateReference, Missing, Typed, expressionNormalizeValue
  <2>2. ~Unknown(e) => Mistyped(e)
    <3> SUFFICES ASSUME ~Unknown(e) PROVE Mistyped(e)
      OBVIOUS
    <3>1. e.declared = type.kind /\ type.kind # "list"
      BY <1>2 DEF Unknown
    <3>2. type = Plain(e.declared)
      BY <1>3, <3>1 DEF IsType
    <3>3. ~expressionLiteralValid(v, type)
      BY <1>6, <3>2, ValidNormalizes
    <3>4. v # Nil /\ ~Normalizable(v, type.kind)
      BY <1>6, <3>1, <3>2 DEF Normalizes
    <3> QED
      BY <1>2, <3>3, <3>4 DEF Mistyped, Normalizable, IsInstant
  <2> QED
    BY <2>1, <2>2, Results DEF Excused
<1>7. CASE ~Missing(e) /\ Normalizes(v, Plain(e.declared))
  <2>1. e.key \in DOMAIN expression.sources
    BY <1>7 DEF Missing
  <2>2. IsValue(v)
    BY <2>1, ExpressionAssumption
  <2>3. PICK x : /\ Typed(v, Plain(e.declared), "reference_value_invalid")
                      = Ok(Value(Plain(e.declared), x))
                 /\ x = Nil => v = Nil
                 /\ Counts(Value(Plain(e.declared), x))
    BY <1>7, <2>2, TypedIs
  <2>4. r = Ok(Value(Plain(e.declared), x))
    BY <1>4, <1>7, <2>3 DEF expressionEvaluateReference, Missing
  <2>5. /\ Value(Plain(e.declared), x).type = Plain(e.declared)
        /\ Value(Plain(e.declared), x).v = x
    BY DEF Value
  <2>6. e \in {expression.nodes[j] : j \in 1..i}
    OBVIOUS
  <2>7. x = Nil => HasNil(i)
    BY <2>1, <2>3, <2>6 DEF HasNil
  <2>8. Plain(e.declared) = type \/ Untyped(i)
    <3>1. CASE Unknown(e)
      BY <2>6, <3>1 DEF Untyped
    <3>2. CASE ~Unknown(e)
      <4>1. e.declared = type.kind /\ type.kind # "list"
        BY <1>2, <3>2 DEF Unknown
      <4> QED
        BY <1>3, <4>1 DEF IsType
    <3> QED
      BY <3>1, <3>2
  <2> QED
    BY <2>3, <2>4, <2>5, <2>7, <2>8 DEF Agrees, IsNil
<1> QED
  BY <1>5, <1>6, <1>7

\* A decimal operation fails on what is not a number, or by its result.
LEMMA CalculationFails ==
  ASSUME NEW op \in Arithmetic, NEW l, NEW m
  PROVE  LET r == calculateDecimal(l, m, DefaultConfig, op) IN
         \/ r.code = "value_invalid" /\ (l = NaN \/ m = NaN)
         \/ r.code \in {"divide_by_zero", "precision_overflow"}
         \/ r = Ok(r.value)
<1> DEFINE r == calculateDecimal(l, m, DefaultConfig, op)
           result == Result(l, m, DefaultConfig, op)
<1>1. CASE l = NaN \/ m = NaN
  BY <1>1, Results DEF calculateDecimal
<1>2. CASE ~(l = NaN \/ m = NaN) /\ op = "divide" /\ m.int = 0
  BY <1>2, Results DEF calculateDecimal
<1>3. CASE ~(l = NaN \/ m = NaN) /\ ~(op = "divide" /\ m.int = 0)
  <2>1. r = NormalizeDecimal(result, DefaultConfig)
    BY <1>3 DEF calculateDecimal
  <2>2. result # NaN
    <3>1. \E n, places : result = Number(n, places)
      BY DEF Result, Arithmetic, DivRound
    <3> QED
      BY <3>1, NotNull
  <2> QED
    BY <2>1, <2>2, Results DEF NormalizeDecimal
<1> QED
  BY <1>1, <1>2, <1>3

\* The type of an operation and why it may have none.
LEMMA OperationTypes ==
  ASSUME NEW op, NEW types
  PROVE  LET r == ExpressionOperationType(op, types) IN
         /\ op \in Operators =>
              \/ r.code \in {"arguments_invalid", "type_mismatch"} /\ Failed(r)
              \/ ArgumentsOK(op, types) /\ r = Ok(r.value)
         /\ ~Failed(r) => op \in Operators
  BY Results DEF ExpressionOperationType

\* No operator is of two groups.
LEMMA OperatorsDiffer ==
  LET others == {"and", "or", "not", "date_add", "date_diff", "now", "coalesce"} IN
  /\ \A op \in Comparisons : op \notin Arithmetic /\ op \notin others
  /\ \A op \in Arithmetic : op \notin Comparisons /\ op \notin others
  /\ \A op \in others : op \notin Comparisons /\ op \notin Arithmetic
  BY DEF Comparisons, Arithmetic

\* What the table asks of the arguments.
LEMMA ArgumentsAre ==
  ASSUME NEW op, NEW types, ArgumentsOK(op, types)
  PROVE  /\ op \in Comparisons =>
              Len(types) = 2 /\ expressionComparable(types[1], types[2], op)
         /\ op \in Arithmetic =>
              Len(types) = 2 /\ expressionAllType(types, {"integer", "decimal"})
         /\ op = "date_add" => types[1].kind \in {"date", "datetime"}
         /\ op = "coalesce" => Len(types) >= 1 /\ expressionAllSameType(types)
<1>1. CASE op \in Comparisons
  BY <1>1, OperatorsDiffer DEF ArgumentsOK
<1>2. CASE op \in Arithmetic
  BY <1>2, OperatorsDiffer DEF ArgumentsOK
<1>3. CASE op \in {"date_add", "coalesce"}
  BY <1>3, OperatorsDiffer DEF ArgumentsOK
<1> QED
  BY <1>1, <1>2, <1>3

\* How the result r of an operation relates to its arguments V[1..n].
Applies(r, op, V, n, type) ==
  \/ r.code \in {"panic", "value_invalid"} /\ \E k \in 1..n : IsNil(V[k])
  \/ r.code \in {"divide_by_zero", "precision_overflow"} /\ op \in Arithmetic
  \/ \E x : /\ r = Ok(x) /\ x.type = type /\ Counts(x)
            /\ IsNil(x) => \E k \in 1..n : IsNil(V[k])

\* Operations on values of the right types: a type assertion and a decimal
\* operand fail only for a null argument.
LEMMA OperationApplies ==
  ASSUME NEW op \in Operators, NEW n \in Nat, NEW V, DOMAIN V = 1..n, NEW clock,
         NEW T, DOMAIN T = 1..n, \A k \in 1..n : T[k] = V[k].type,
         ArgumentsOK(op, T), \A k \in 1..n : Counts(V[k]),
         NEW type, type = ExpressionOperationType(op, T).value
  PROVE  Applies(expressionApplyOperation(op, V, type, clock), op, V, n, type)
<1> DEFINE r == expressionApplyOperation(op, V, type, clock)
<1> USE DEF Applies
<1>1. DOMAIN T = 1..n /\ Len(T) = n /\ \A k \in 1..n : T[k] = V[k].type
  OBVIOUS
<1>2. type = CASE op \in Arithmetic -> Plain("decimal")
               [] op \in {"date_add", "coalesce"} -> T[1]
               [] op = "date_diff" -> Plain("duration")
               [] op = "now" -> Plain("datetime")
               [] OTHER -> Plain("boolean")
  BY Results DEF ExpressionOperationType
<1>3. CASE Panics(op, V)
  <2>1. r = Error("panic")
    BY <1>3 DEF expressionApplyOperation
  <2>2. PICK k \in Asserted(op, V) :
          IsNil(V[k]) \/ (op \in Comparisons /\ V[k].type.kind # V[1].type.kind)
    BY <1>3 DEF Panics
  <2>3. k \in 1..n
    BY <2>2 DEF Asserted
  <2>4. op \in Comparisons => V[k].type.kind = V[1].type.kind
    <3> SUFFICES ASSUME op \in Comparisons PROVE V[k].type.kind = V[1].type.kind
      OBVIOUS
    <3>1. n = 2 /\ expressionComparable(T[1], T[2], op)
      BY <1>1, ArgumentsAre
    <3>2. V[1].type = V[2].type
      BY <1>1, <3>1 DEF expressionComparable
    <3> QED
      BY <2>3, <3>1, <3>2
  <2> QED
    BY <2>1, <2>2, <2>3, <2>4, Results
<1>4. CASE ~Panics(op, V) /\ op \in {"and", "or", "not"} \cup Comparisons
  <2>1. type = Plain("boolean")
    BY <1>2, <1>4 DEF Arithmetic, Comparisons
  <2>2. \E b : r = Boolean(b)
    <3>1. CASE op = "and"
      BY <1>4, <3>1, OperatorsDiffer DEF expressionApplyOperation
    <3>2. CASE op = "or"
      BY <1>4, <3>2, OperatorsDiffer DEF expressionApplyOperation
    <3>3. CASE op = "not"
      BY <1>4, <3>3, OperatorsDiffer DEF expressionApplyOperation
    <3>4. CASE op \in Comparisons
      <4>1. r = Boolean(Holds(op, Comparison(V[1], V[2])))
        BY <1>4, <3>4, OperatorsDiffer DEF expressionApplyOperation
      <4> QED
        BY <4>1
    <3> QED
      BY <1>4, <3>1, <3>2, <3>3, <3>4
  <2>3. PICK x : r = Ok(Value(Plain("boolean"), [reads |-> {"boolean"}, number |-> x]))
    BY <2>2 DEF Boolean, Scalar
  <2> DEFINE y == Value(Plain("boolean"), [reads |-> {"boolean"}, number |-> x])
  <2>4. y.type = type /\ y.v = [reads |-> {"boolean"}, number |-> x]
    BY <2>1 DEF Value
  <2>5. ~IsNil(y) /\ Counts(y)
    <3>1. Plain("boolean").kind = "boolean"
      BY DEF Plain, Type
    <3>2. y.v # Nil
      BY <2>4, NotNull
    <3> QED
      BY <2>1, <2>4, <3>1, <3>2 DEF IsNil, Counts
  <2> QED
    BY <2>3, <2>4, <2>5
<1>5. CASE ~Panics(op, V) /\ op \in Arithmetic
  <2> DEFINE result == calculateDecimal(Amount(V[1]), Amount(V[2]), DefaultConfig, op)
             y == Value(type, [reads |-> {"decimal"},
                               number |-> Parsed(result.value, DefaultConfig)])
  <2>1. r = IF Failed(result) THEN result ELSE Ok(y)
    BY <1>5 DEF expressionApplyOperation, Arithmetic, Comparisons
  <2>2. n = 2 /\ V[1].type.kind \in {"integer", "decimal"}
              /\ V[2].type.kind \in {"integer", "decimal"}
    <3>1. n = 2 /\ expressionAllType(T, {"integer", "decimal"})
      BY <1>1, <1>5, ArgumentsAre
    <3>2. 1 \in DOMAIN T /\ 2 \in DOMAIN T
      BY <1>1, <3>1
    <3> QED
      BY <1>1, <3>1, <3>2 DEF expressionAllType
  <2>3. Amount(V[1]) = NaN => IsNil(V[1])
    BY <2>2 DEF Amount, Counts
  <2>4. Amount(V[2]) = NaN => IsNil(V[2])
    BY <2>2 DEF Amount, Counts
  <2>5. \/ result.code = "value_invalid" /\ (Amount(V[1]) = NaN \/ Amount(V[2]) = NaN)
        \/ result.code \in {"divide_by_zero", "precision_overflow"}
        \/ result = Ok(result.value)
    BY <1>5, CalculationFails
  <2>6. y.type = type /\ ~IsNil(y) /\ Counts(y)
    BY NotNull DEF Value, IsNil, Counts, Parsed
  <2>7. CASE result.code = "value_invalid" /\ (Amount(V[1]) = NaN \/ Amount(V[2]) = NaN)
    <3>1. r = result
      BY <2>1, <2>7 DEF Failed
    <3>2. \E k \in 1..n : IsNil(V[k])
      BY <2>2, <2>3, <2>4, <2>7
    <3> QED
      BY <2>7, <3>1, <3>2
  <2>8. CASE result.code \in {"divide_by_zero", "precision_overflow"}
    BY <1>5, <2>1, <2>8 DEF Failed
  <2>9. CASE result = Ok(result.value)
    <3>1. r = Ok(y)
      BY <2>1, <2>9, Results
    <3> QED
      BY <2>6, <3>1
  <2> QED
    BY <2>5, <2>7, <2>8, <2>9
<1>6. CASE ~Panics(op, V) /\ op \in {"date_add", "date_diff", "now"}
  <2>1. type.kind \notin {"integer", "decimal"}
    <3>1. op \notin Arithmetic
      BY <1>6 DEF Arithmetic
    <3>2. op = "date_add" => T[1].kind \in {"date", "datetime"}
      BY ArgumentsAre
    <3>3. /\ op = "date_add" => type = T[1]
          /\ op = "date_diff" => type = Plain("duration")
          /\ op = "now" => type = Plain("datetime")
      BY <1>2, <3>1
    <3>4. Plain("duration").kind = "duration" /\ Plain("datetime").kind = "datetime"
      BY DEF Plain, Type
    <3> QED
      BY <1>6, <3>2, <3>3, <3>4
  <2>2. PICK kind, m : r = Ok(Value(type, [reads |-> {kind}, number |-> m]))
    BY <1>6 DEF expressionApplyOperation, Arithmetic, Comparisons, DateAdd, DateDiff, Hours
  <2> DEFINE y == Value(type, [reads |-> {kind}, number |-> m])
  <2>3. y.type = type /\ ~IsNil(y) /\ Counts(y)
    BY <2>1, NotNull DEF Value, IsNil, Counts
  <2> QED
    BY <2>2, <2>3
<1>7. CASE ~Panics(op, V) /\ op = "coalesce"
  <2> DEFINE given == {k \in DOMAIN V : ~IsNil(V[k])}
             first == CHOOSE k \in given : \A j \in given : k <= j
             y == Value(type, IF given = {} THEN Nil ELSE V[first].v)
  <2>1. r = Ok(y)
    BY <1>7 DEF expressionApplyOperation, Arithmetic, Comparisons
  <2>2. n >= 1 /\ \A k \in 1..n : V[k].type = type
    <3>1. n >= 1 /\ \A k \in 1..n : T[k] = T[1]
      BY <1>1, <1>7, ArgumentsAre DEF expressionAllSameType
    <3>2. type = T[1]
      BY <1>2, <1>7 DEF Arithmetic
    <3> QED
      BY <1>1, <3>1, <3>2
  <2>3. y.type = type
    BY DEF Value
  <2>4. CASE given = {}
    <3>1. IsNil(V[1]) /\ 1 \in 1..n
      BY <2>2, <2>4
    <3>2. IsNil(y)
      BY <2>4 DEF Value, IsNil
    <3> QED
      BY <2>1, <2>3, <3>1, <3>2 DEF Counts
  <2>5. CASE given # {}
    <3>1. given \subseteq Nat
      OBVIOUS
    <3>2. first \in given
      BY <2>5, <3>1, LeastNumber
    <3>3. first \in 1..n /\ ~IsNil(V[first]) /\ V[first].type = type
      BY <2>2, <3>2
    <3>4. y.v = V[first].v
      BY <2>5 DEF Value
    <3>5. ~IsNil(y) /\ Counts(y)
      BY <2>3, <3>3, <3>4 DEF IsNil, Counts
    <3> QED
      BY <2>1, <2>3, <3>5
  <2> QED
    BY <2>4, <2>5
<1> QED
  BY <1>3, <1>4, <1>5, <1>6, <1>7 DEF Operators

\* Evaluation gives an operation the type validation gave it, or its arguments
\* or its arithmetic are to blame.
LEMMA OperationAgrees ==
  ASSUME NEW i \in Nat \ {0}, NEW type, NEW before, NEW values,
         expression.nodes[i].kind = "operation",
         expression.nodes[i].arguments \in Seq(1..(i - 1)),
         expressionValidateAt(expression.nodes[i], before, expression.types)
           = Ok(type),
         \A j \in 1..(i - 1) : Agrees(values[j], j, before[j])
  PROVE  LET r == expressionEvaluateAt(expression.nodes[i], values,
                    expression.sources, expression.clock)
         IN  \/ Failed(r) /\ Excused(r.code, expression.nodes[i], i - 1)
             \/ \E x : r = Ok(x) /\ Agrees(x, i, type)
<1> DEFINE e == expression.nodes[i]
           r == expressionEvaluateAt(e, values, expression.sources, expression.clock)
           n == Len(e.arguments)
           V == [k \in DOMAIN e.arguments |-> values[e.arguments[k]]]
           T == [k \in DOMAIN V |-> V[k].type]
           B == [k \in DOMAIN e.arguments |-> before[e.arguments[k]]]
           t == ExpressionOperationType(e.operator, T)
<1>1. /\ i - 1 \in Nat /\ n \in Nat /\ DOMAIN e.arguments = 1..n
      /\ \A k \in 1..n : e.arguments[k] \in 1..(i - 1)
  OBVIOUS
<1>2. \A k \in 1..n :
        /\ V[k].type = B[k] \/ Untyped(i - 1)
        /\ IsNil(V[k]) => HasNil(i - 1)
        /\ Counts(V[k])
  <2> SUFFICES ASSUME NEW k \in 1..n
               PROVE  /\ V[k].type = B[k] \/ Untyped(i - 1)
                      /\ IsNil(V[k]) => HasNil(i - 1)
                      /\ Counts(V[k])
    OBVIOUS
  <2>1. e.arguments[k] \in 1..(i - 1)
    BY <1>1
  <2>2. Agrees(V[k], e.arguments[k], B[k])
    BY <1>1, <2>1
  <2> QED
    BY <1>1, <2>1, <2>2, MetBefore DEF Agrees
<1>3. ExpressionOperationType(e.operator, B) = Ok(type)
  BY DEF expressionValidateAt
<1>4. e.operator \in Operators
  BY <1>3, OperationTypes, Results
<1>5. T = B \/ Untyped(i - 1)
  <2>1. ASSUME ~Untyped(i - 1) PROVE T = B
    BY <1>1, <1>2, <2>1
  <2> QED
    BY <2>1
<1>6. r = IF Failed(t) THEN t
          ELSE expressionApplyOperation(e.operator, V, t.value, expression.clock)
  BY DEF expressionEvaluateAt
<1>7. CASE Failed(t)
  <2>1. t.code \in {"arguments_invalid", "type_mismatch"}
    <3> HIDE DEF T
    <3> QED
      BY <1>4, <1>7, OperationTypes, Results
  <2>2. Untyped(i - 1)
    <3> HIDE DEF T, B
    <3> QED
      BY <1>3, <1>5, <1>7, Results
  <2> QED
    BY <1>6, <1>7, <2>1, <2>2 DEF Excused
<1>8. CASE ~Failed(t)
  <2>1. ArgumentsOK(e.operator, T) /\ t = Ok(t.value)
    BY <1>4, <1>8, OperationTypes
  <2>2. t.value = type \/ Untyped(i)
    <3>1. i \in Nat /\ (i > 1 => i - 1 \in 1..i)
      OBVIOUS
    <3>2. Untyped(i - 1) => Untyped(i)
      <4>1. CASE i = 1
        <5>1. 1..(i - 1) = {}
          BY <4>1
        <5> QED
          BY <5>1 DEF Untyped
      <4> QED
        BY <3>1, <4>1, MetBefore
    <3> QED
      BY <1>3, <1>5, <3>2, Results
  <2> DEFINE a == expressionApplyOperation(e.operator, V, t.value, expression.clock)
  <2>3. r = a /\ DOMAIN V = 1..n
    BY <1>1, <1>6, <1>8
  <2>4. Applies(a, e.operator, V, n, t.value)
    <3>1. \A k \in 1..n : Counts(V[k])
      BY <1>2
    <3>2. DOMAIN T = 1..n /\ \A k \in 1..n : T[k] = V[k].type
      BY <2>3
    <3>3. /\ e.operator \in Operators /\ n \in Nat /\ DOMAIN V = 1..n
          /\ ArgumentsOK(e.operator, T)
          /\ t.value = ExpressionOperationType(e.operator, T).value
      BY <1>1, <1>4, <2>1, <2>3
    <3> HIDE DEF n, V, T, t, e
    <3> QED
      BY <3>1, <3>2, <3>3, OperationApplies
  <2>5. CASE a.code \in {"panic", "value_invalid"} /\ \E k \in 1..n : IsNil(V[k])
    <3>1. HasNil(i - 1)
      BY <1>2, <2>5
    <3> HIDE DEF a
    <3> QED
      BY <2>3, <2>5, <3>1 DEF Excused, Failed
  <2>6. CASE /\ a.code \in {"divide_by_zero", "precision_overflow"}
             /\ e.operator \in Arithmetic
    <3> HIDE DEF a
    <3> QED
      BY <2>3, <2>6 DEF Excused, Failed
  <2>7. CASE \E x : /\ a = Ok(x) /\ x.type = t.value /\ Counts(x)
                    /\ IsNil(x) => \E k \in 1..n : IsNil(V[k])
    <3>1. PICK x : /\ a = Ok(x) /\ x.type = t.value /\ Counts(x)
                   /\ IsNil(x) => \E k \in 1..n : IsNil(V[k])
      BY <2>7
    <3>2. IsNil(x) => HasNil(i)
      <4> SUFFICES ASSUME IsNil(x) PROVE HasNil(i)
        OBVIOUS
      <4>1. PICK k \in 1..n : IsNil(V[k])
        BY <3>1
      <4>2. HasNil(i - 1) /\ e.arguments[k] \in 1..(i - 1)
        BY <1>1, <1>2, <4>1
      <4>3. i - 1 \in 1..i
        BY <4>2
      <4> QED
        BY <4>2, <4>3, MetBefore
    <3>3. Agrees(x, i, type)
      BY <2>2, <3>1, <3>2 DEF Agrees
    <3> QED
      BY <2>3, <3>1, <3>3
  <2> QED
    BY <2>4, <2>5, <2>6, <2>7 DEF Applies
<1> QED
  BY <1>7, <1>8

\* The types of later nodes do not matter to an earlier one.
LEMMA ValidatedStays ==
  ASSUME expression \in Expressions, NEW i \in DOMAIN expression.nodes,
         NEW s, NEW t, \A j \in 1..(i - 1) : s[j] = t[j]
  PROVE  expressionValidateAt(expression.nodes[i], s, expression.types)
           = expressionValidateAt(expression.nodes[i], t, expression.types)
<1> DEFINE e == expression.nodes[i]
<1>1. CASE e.kind = "operation"
  <2>1. e.arguments \in Seq(1..(i - 1))
    BY <1>1, ExpressionAssumption
  <2>2. \A k \in DOMAIN e.arguments : e.arguments[k] \in 1..(i - 1)
    <3>1. i \in Nat /\ DOMAIN e.arguments = 1..Len(e.arguments)
      BY <2>1, ExpressionAssumption
    <3> QED
      BY <2>1, <3>1
  <2>3. [k \in DOMAIN e.arguments |-> s[e.arguments[k]]]
          = [k \in DOMAIN e.arguments |-> t[e.arguments[k]]]
    BY <2>2
  <2> QED
    BY <1>1, <2>3 DEF expressionValidateAt
<1>2. CASE e.kind # "operation"
  BY <1>2 DEF expressionValidateAt
<1> QED
  BY <1>1, <1>2

\* Nothing is walked at first.
LEMMA ExpressionInitInv == ExpressionInit => ExpressionInv
<1> SUFFICES ASSUME ExpressionInit PROVE ExpressionInv
  OBVIOUS
<1>1. /\ expression \in Expressions
      /\ typed = <<>> /\ evaluated = <<>> /\ diagnostic = "ok"
  BY DEF ExpressionInit
<1>2. <<>> \in Seq({}) /\ Len(<<>>) = 0
  OBVIOUS
<1>3. Len(expression.nodes) \in Nat
  BY <1>1, ExpressionAssumption
<1>4. Listed(typed) /\ Listed(evaluated)
  BY <1>1, <1>2 DEF Listed
<1> QED
  BY <1>1, <1>2, <1>3, <1>4 DEF ExpressionInv

\* A validated node has the type its arguments give it, now and later.
LEMMA ValidateKeeps == ExpressionInv /\ Validate => ExpressionInv'
<1> SUFFICES ASSUME ExpressionInv, Validate PROVE ExpressionInv'
  OBVIOUS
<1> DEFINE i == Len(typed) + 1
           type == expressionValidateAt(expression.nodes[i], typed, expression.types)
<1>1. /\ expression \in Expressions /\ Listed(typed) /\ Listed(evaluated)
      /\ Len(typed) <= Len(expression.nodes) /\ evaluated = <<>>
      /\ \A j \in 1..Len(typed) :
           expressionValidateAt(expression.nodes[j], typed, expression.types)
             = Ok(typed[j])
  BY DEF ExpressionInv, Validate
<1>2. /\ ~Accepted /\ diagnostic' = type.code
      /\ typed' = IF Failed(type) THEN typed ELSE Append(typed, type.value)
      /\ expression' = expression /\ evaluated' = evaluated
  BY DEF Validate
<1>3. /\ Len(expression.nodes) \in Nat
      /\ DOMAIN expression.nodes = 1..Len(expression.nodes)
      /\ Len(typed) \in Nat /\ Len(evaluated) = 0
  BY <1>1, ListGrows, ExpressionAssumption
<1>4. CASE Failed(type)
  <2>1. typed' = typed /\ ~Accepted'
    BY <1>2, <1>4 DEF Accepted
  <2> QED
    BY <1>1, <1>2, <1>3, <2>1 DEF ExpressionInv
<1>5. CASE ~Failed(type)
  <2>1. /\ typed' = Append(typed, type.value) /\ diagnostic' = "ok"
        /\ type = Ok(type.value)
    <3>1. type = Ok(type.value)
      <4>1. ~Failed(expressionValidateLiteral(expression.nodes[i])) =>
              \E v : expressionValidateLiteral(expression.nodes[i]) = Ok(v)
        BY Results DEF expressionValidateLiteral
      <4>2. ~Failed(expressionValidateReference(expression.nodes[i], expression.types)) =>
              \E v : expressionValidateReference(expression.nodes[i], expression.types) = Ok(v)
        BY Results DEF expressionValidateReference
      <4>3. \A op, types : ~Failed(ExpressionOperationType(op, types)) =>
              \E v : ExpressionOperationType(op, types) = Ok(v)
        BY OperationTypes
      <4>4. \E v : type = Ok(v)
        BY <1>5, <4>1, <4>2, <4>3, Results DEF expressionValidateAt
      <4> QED
        BY <4>4, Results
    <3> QED
      BY <1>2, <1>5, <3>1 DEF Failed
  <2> HIDE DEF type
  <2>2. /\ Listed(typed') /\ Len(typed') = i /\ typed'[i] = type.value
        /\ \A j \in 1..Len(typed) : typed'[j] = typed[j]
    BY <1>1, <2>1, ListGrows
  <2>3. i <= Len(expression.nodes) /\ i \in DOMAIN expression.nodes
    BY <1>1, <1>2, <1>3 DEF Accepted
  <2>4. ASSUME NEW j \in 1..i
        PROVE  expressionValidateAt(expression.nodes[j], typed', expression.types)
                 = Ok(typed'[j])
    <3>1. j \in DOMAIN expression.nodes /\ \A m \in 1..(j - 1) : typed[m] = typed'[m]
      BY <1>3, <2>2, <2>3
    <3>2. expressionValidateAt(expression.nodes[j], typed', expression.types)
            = expressionValidateAt(expression.nodes[j], typed, expression.types)
      BY <1>1, <3>1, ValidatedStays
    <3>3. CASE j = i
      BY <2>1, <2>2, <3>2, <3>3 DEF type
    <3>4. CASE j # i
      <4>1. j \in 1..Len(typed)
        BY <1>3, <3>4
      <4> QED
        BY <1>1, <2>2, <3>2, <4>1
    <3> QED
      BY <3>3, <3>4
  <2> QED
    BY <1>1, <1>2, <1>3, <2>1, <2>2, <2>3, <2>4 DEF ExpressionInv
<1> QED
  BY <1>4, <1>5

\* An evaluated node agrees with the validated one, or is excused.
LEMMA EvaluateKeeps == ExpressionInv /\ Evaluate => ExpressionInv'
<1> SUFFICES ASSUME ExpressionInv, Evaluate PROVE ExpressionInv'
  OBVIOUS
<1> DEFINE i == Len(evaluated) + 1
           e == expression.nodes[i]
           r == expressionEvaluateAt(e, evaluated, expression.sources,
                                     expression.clock)
<1>1. /\ expression \in Expressions /\ Listed(typed) /\ Listed(evaluated)
      /\ Len(typed) <= Len(expression.nodes)
      /\ Len(evaluated) <= Len(expression.nodes)
      /\ \A j \in 1..Len(typed) :
           expressionValidateAt(expression.nodes[j], typed, expression.types)
             = Ok(typed[j])
      /\ \A j \in 1..Len(evaluated) : Agrees(evaluated[j], j, typed[j])
  BY DEF ExpressionInv
<1>2. /\ Accepted /\ ~Evaluated /\ diagnostic' = r.code
      /\ evaluated' = IF Failed(r) THEN evaluated ELSE Append(evaluated, r.value)
      /\ expression' = expression /\ typed' = typed
  BY DEF Evaluate
<1>3. /\ Len(expression.nodes) \in Nat /\ Len(evaluated) \in Nat
      /\ DOMAIN expression.nodes = 1..Len(expression.nodes)
      /\ Len(typed) = Len(expression.nodes)
  BY <1>1, <1>2, ListGrows, ExpressionAssumption DEF Accepted
<1>4. i \in Nat \ {0} /\ i \in DOMAIN expression.nodes /\ i - 1 = Len(evaluated)
  BY <1>1, <1>2, <1>3 DEF Evaluated
<1>5. expressionValidateAt(e, typed, expression.types) = Ok(typed[i])
  BY <1>1, <1>3, <1>4
<1>6. Accepted' /\ \A j : (Untyped(j)' <=> Untyped(j)) /\ (HasNil(j)' <=> HasNil(j))
  BY <1>2 DEF Accepted, Untyped, Unknown, HasNil
<1>7. \/ Failed(r) /\ Excused(r.code, e, Len(evaluated))
      \/ \E x : r = Ok(x) /\ Agrees(x, i, typed[i])
  <2>1. CASE e.kind = "literal"
    <3>1. IsValue(e.value)
      BY <1>1, <1>4, <2>1, ExpressionAssumption
    <3> QED
      BY <1>4, <1>5, <2>1, <3>1, LiteralAgrees
  <2>2. CASE e.kind = "reference"
    BY <1>1, <1>4, <1>5, <2>2, ReferenceAgrees
  <2>3. CASE e.kind = "operation"
    <3>1. e.arguments \in Seq(1..(i - 1))
      BY <1>1, <1>4, <2>3, ExpressionAssumption
    <3> QED
      BY <1>1, <1>4, <1>5, <2>3, <3>1, OperationAgrees
  <2>4. e.kind \in {"literal", "reference", "operation"}
    BY <1>5, Results DEF expressionValidateAt
  <2> QED
    BY <2>1, <2>2, <2>3, <2>4
<1>8. CASE Failed(r) /\ Excused(r.code, e, Len(evaluated))
  <2>1. evaluated' = evaluated /\ diagnostic' = r.code
    BY <1>2, <1>8
  <2>2. Excused(diagnostic, expression.nodes[Len(evaluated) + 1], Len(evaluated))'
    BY <1>2, <1>8, <2>1
    DEF Excused, HasNil, Untyped, Unknown, Missing, Mistyped
  <2>3. \A j \in 1..Len(evaluated') : Agrees(evaluated[j], j, typed[j])'
    BY <1>1, <1>2, <1>6, <2>1 DEF Agrees, Counts, IsNil
  <2> QED
    BY <1>1, <1>2, <1>6, <2>1, <2>2, <2>3 DEF ExpressionInv
<1>9. CASE \E x : r = Ok(x) /\ Agrees(x, i, typed[i])
  <2>1. PICK x : r = Ok(x) /\ Agrees(x, i, typed[i])
    BY <1>9
  <2>2. evaluated' = Append(evaluated, x) /\ diagnostic' = "ok"
    BY <1>2, <2>1, Results
  <2>3. /\ Listed(evaluated') /\ Len(evaluated') = i /\ evaluated'[i] = x
        /\ \A j \in 1..Len(evaluated) : evaluated'[j] = evaluated[j]
    BY <1>1, <2>2, ListGrows
  <2>4. ASSUME NEW j \in 1..i PROVE Agrees(evaluated'[j], j, typed[j])
    <3>1. CASE j = i
      BY <2>1, <2>3, <3>1
    <3>2. CASE j # i
      <4>1. j \in 1..Len(evaluated)
        BY <1>3, <3>2
      <4> QED
        BY <1>1, <2>3, <4>1
    <3> QED
      BY <3>1, <3>2
  <2>5. \A j \in 1..Len(evaluated') : Agrees(evaluated[j], j, typed[j])'
    BY <1>2, <1>6, <2>3, <2>4 DEF Agrees, Counts, IsNil
  <2>6. Len(evaluated') <= Len(expression.nodes)
    BY <1>3, <1>4, <2>3
  <2> QED
    BY <1>1, <1>2, <1>6, <2>2, <2>3, <2>5, <2>6 DEF ExpressionInv
<1> QED
  BY <1>7, <1>8, <1>9

\* For any expressions, declared types, data and clock: every node of an
\* accepted expression evaluates to a value of the type it was accepted with,
\* or the walk ends for one of the reasons Excused lists.
THEOREM AcceptedStaysEvaluable == ExpressionSpec => []AcceptedEvaluates
<1>1. ExpressionInv /\ [ExpressionNext]_expressionVars => ExpressionInv'
  <2> SUFFICES ASSUME ExpressionInv, [ExpressionNext]_expressionVars
               PROVE  ExpressionInv'
    OBVIOUS
  <2>1. CASE UNCHANGED expressionVars
    <3>1. /\ expression' = expression /\ typed' = typed /\ evaluated' = evaluated
          /\ diagnostic' = diagnostic
      BY <2>1 DEF expressionVars
    <3>2. /\ Accepted' <=> Accepted
          /\ \A j : (Untyped(j)' <=> Untyped(j)) /\ (HasNil(j)' <=> HasNil(j))
      BY <3>1 DEF Accepted, Untyped, Unknown, HasNil
    <3>3. Excused(diagnostic, expression.nodes[Len(evaluated) + 1], Len(evaluated))
          => Excused(diagnostic, expression.nodes[Len(evaluated) + 1], Len(evaluated))'
      BY <3>1, <3>2 DEF Excused, Unknown, Missing, Mistyped
    <3>4. \A j \in 1..Len(evaluated) : Agrees(evaluated[j], j, typed[j])'
      BY <3>1, <3>2 DEF ExpressionInv, Agrees, Counts, IsNil
    <3> QED
      BY <3>1, <3>2, <3>3, <3>4 DEF ExpressionInv
  <2> QED
    BY <2>1, ValidateKeeps, EvaluateKeeps DEF ExpressionNext
<1>2. ExpressionInv => AcceptedEvaluates
  BY DEF ExpressionInv, AcceptedEvaluates, Agrees
<1> QED
  BY <1>1, <1>2, ExpressionInitInv, PTL DEF ExpressionSpec
=============================================================================
