------------------------------ MODULE SafeClient ------------------------------
(***************************************************************************)
(* The outbound client of safehttp/client.go: a request is validated, then *)
(* dialled, and a redirect starts both again.  Every validation and every  *)
(* dial asks the resolver anew, whose answers change in between, and a     *)
(* kept connection is used again without a dial.                           *)
(*                                                                         *)
(* An address is a model value; Public are the ones validateAddress lets   *)
(* pass.  A host is a name or, for a literal, the address itself.  A URL   *)
(* with another scheme or without a host is NoTarget.  Proxies, which the  *)
(* cloned transport would take from the environment, are left out.         *)
(***************************************************************************)
EXTENDS Naturals, Sequences, FiniteSets

CONSTANTS
  Names, Addresses, Public, Loopback,
  Answers,               (* what the resolver may answer: sets of addresses *)
  AllowedHosts,          (* Policy.AllowedHosts, normalized                 *)
  NoTarget,
  MaxRedirects           (* len(via) at which CheckRedirect stops           *)

ASSUME ClientAssumption ==
  /\ Public \subseteq Addresses /\ Loopback \subseteq Addresses
  /\ Public \cap Loopback = {}
  /\ Names \cap Addresses = {} /\ NoTarget \notin Names \cup Addresses
  /\ Answers \subseteq SUBSET Addresses
  /\ AllowedHosts \subseteq Names \cup Addresses

VARIABLES
  allowLiteralLoopback,  (* Policy.AllowLiteralLoopback                     *)
  dns,                   (* the resolver's present answer for each name     *)
  phase,                 (* where the call of the client is                 *)
  chain,                 (* the hosts requested so far, the last one now    *)
  candidates,            (* resolved and validated addresses still to try   *)
  dialled,               (* history: what this call connected to            *)
  idle                   (* hosts with a kept connection                    *)

clientVars == <<allowLiteralLoopback, dns, phase, chain, candidates, dialled,
                idle>>

ClientInit ==
  /\ allowLiteralLoopback \in BOOLEAN
  /\ dns = [n \in Names |-> {}]
  /\ phase = "ready" /\ chain = <<>> /\ candidates = {}
  /\ dialled = {} /\ idle = {}

Host == chain[Len(chain)]

\* The resolver is external: its answers change at any time.
ResolverChanges(n, answer) ==
  /\ answer # dns[n]
  /\ dns' = [dns EXCEPT ![n] = answer]
  /\ UNCHANGED <<allowLiteralLoopback, phase, chain, candidates, dialled, idle>>

\* validateURL, with validateAddress on a literal or on all that is resolved.
validateURL(host, allowLoopback) ==
  \/ host \in AllowedHosts
  \/ host \in Public
  \/ allowLoopback /\ host \in Loopback
  \/ host \in Names /\ dns[host] # {} /\ dns[host] \subseteq Public

isAllowedLiteralLoopback(host) == allowLiteralLoopback /\ host \in Loopback

\* The caller sends a request.
Do(host) ==
  /\ phase = "ready"
  /\ chain' = <<host>> /\ phase' = "send" /\ dialled' = {}
  /\ UNCHANGED <<allowLiteralLoopback, dns, candidates, idle>>

Refuse ==
  /\ phase' = "ready" /\ candidates' = {}
  /\ UNCHANGED <<allowLiteralLoopback, dns, chain, dialled, idle>>

\* validatingTransport.RoundTrip, up to the base transport.
RoundTrip ==
  /\ phase = "send"
  /\ IF validateURL(Host, allowLiteralLoopback)
     THEN /\ phase' = "connect"
          /\ UNCHANGED <<allowLiteralLoopback, dns, chain, candidates, dialled,
                         idle>>
     ELSE Refuse

\* The base transport has a connection to the host.
Reuse ==
  /\ phase = "connect" /\ Host \in idle
  /\ phase' = "response"
  /\ UNCHANGED <<allowLiteralLoopback, dns, chain, candidates, dialled, idle>>

\* A bug to tell apart: the addresses of a name are not validated again.
DialAsResolved ==
  IF Host \in AllowedHosts
  THEN IF Host \in Names THEN dns[Host] ELSE {Host}
  ELSE IF Host \in Addresses
  THEN IF Host \in Public \/ isAllowedLiteralLoopback(Host) THEN {Host} ELSE {}
  ELSE dns[Host]

\* What dialContext may dial: an allowed host as it is resolved by the
\* dialer, a literal that passes, or the addresses of a name if all of them
\* pass.
DialAddresses ==
  IF Host \in AllowedHosts
  THEN IF Host \in Names THEN dns[Host] ELSE {Host}
  ELSE IF Host \in Addresses
  THEN IF Host \in Public \/ isAllowedLiteralLoopback(Host) THEN {Host} ELSE {}
  ELSE IF dns[Host] \subseteq Public THEN dns[Host] ELSE {}

\* dialContext resolves and validates, or returns an error.
DialContext ==
  /\ phase = "connect"
  /\ IF DialAddresses # {}
     THEN /\ candidates' = DialAddresses /\ phase' = "dial"
          /\ UNCHANGED <<allowLiteralLoopback, dns, chain, dialled, idle>>
     ELSE Refuse

\* One candidate is tried: it answers, or the next one is tried.
Dial(a) ==
  /\ phase = "dial" /\ a \in candidates
  /\ dialled' = dialled \cup {[host |-> Host, address |-> a]}
  /\ \/ phase' = "response" /\ candidates' = {} /\ idle' = idle \cup {Host}
     \/ /\ candidates' = candidates \ {a} /\ UNCHANGED idle
        /\ phase' = IF candidates' = {} THEN "ready" ELSE "dial"
  /\ UNCHANGED <<allowLiteralLoopback, dns, chain>>

\* The response ends the call.
Respond ==
  /\ phase = "response"
  /\ phase' = "ready"
  /\ UNCHANGED <<allowLiteralLoopback, dns, chain, candidates, dialled, idle>>

\* The response is a redirect: CheckRedirect looks at the new URL, and lets
\* a literal loopback pass only if the first request went to one.
Redirect(host) ==
  /\ phase = "response"
  /\ IF /\ Len(chain) < MaxRedirects
        /\ validateURL(host, isAllowedLiteralLoopback(chain[1]))
     THEN /\ chain' = Append(chain, host) /\ phase' = "send"
          /\ UNCHANGED <<allowLiteralLoopback, dns, candidates, dialled, idle>>
     ELSE Refuse

\* The base transport closes a kept connection.
Drop(host) ==
  /\ host \in idle
  /\ idle' = idle \ {host}
  /\ UNCHANGED <<allowLiteralLoopback, dns, phase, chain, candidates, dialled>>

Targets == Names \cup Addresses \cup {NoTarget}

ClientNext ==
  \/ \E n \in Names, answer \in Answers : ResolverChanges(n, answer)
  \/ \E host \in Targets : Do(host) \/ Redirect(host) \/ Drop(host)
  \/ RoundTrip \/ Reuse \/ DialContext \/ Respond
  \/ \E a \in Addresses : Dial(a)

ClientSpec == ClientInit /\ [][ClientNext]_clientVars
-----------------------------------------------------------------------------
\* A connection goes to a public address, to an allowed host, or to the
\* literal loopback the call itself began with where the policy permits it,
\* whatever the resolver answers between validation and dial and wherever
\* redirects lead ("DNS names that resolve to loopback remain blocked").
DialsStayAllowed ==
  \A d \in dialled :
    \/ d.address \in Public
    \/ d.host \in AllowedHosts
    \/ /\ isAllowedLiteralLoopback(d.host) /\ d.host = d.address
       /\ isAllowedLiteralLoopback(chain[1])
=============================================================================
