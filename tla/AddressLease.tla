---------------------------- MODULE AddressLease ----------------------------
(***************************************************************************)
(* What the controllers that bind floating IPs promise to each other and   *)
(* to everyone else at Timeweb: an address has one holder at most, is      *)
(* taken only while it is free and by somebody who was asked to take it,   *)
(* and is given back only by its holder, when that is no longer asked to   *)
(* keep it.  Servers (ServerFloatingIPs) and routers (RouterUpdate)        *)
(* implement this.                                                         *)
(*                                                                         *)
(* Timeweb offers no conditional request: once somebody works in the panel *)
(* a release that was decided on before may hit the next holder.           *)
(***************************************************************************)
CONSTANTS
  Holders,    \* those who bind and release addresses
  Addresses,  \* floating IPs
  Free,       \* holder of an address that nobody holds
  Elsewhere   \* holder of an address that something else holds

VARIABLES
  holder,   \* address -> who holds it
  asked,    \* holder -> addresses it has been asked to hold
  touched   \* somebody has worked in the panel

Init ==
  /\ holder \in [Addresses -> Holders \cup {Free, Elsewhere}]
  /\ asked \in [Holders -> SUBSET Addresses]
  /\ ~touched

Take(h, a) ==
  /\ holder[a] = Free /\ a \in asked[h]
  /\ holder' = [holder EXCEPT ![a] = h]

Release(h, a) ==
  /\ holder[a] = h /\ a \notin asked[h]
  /\ holder' = [holder EXCEPT ![a] = Free]

LateRelease(a) == touched /\ holder' = [holder EXCEPT ![a] = Free]

PanelMoves(a) ==
  /\ touched'
  /\ \E to \in {Free, Elsewhere} : holder' = [holder EXCEPT ![a] = to]

\* What the holders are asked for changes with any step, or on its own.
Asks == asked' \in [Holders -> SUBSET Addresses] /\ (touched => touched')

Next ==
  /\ Asks
  /\ \/ UNCHANGED holder
     \/ \E a \in Addresses :
          \/ \E h \in Holders : Take(h, a) \/ Release(h, a)
          \/ LateRelease(a) \/ PanelMoves(a)

Spec == Init /\ [][Next]_<<holder, asked, touched>>
=============================================================================
