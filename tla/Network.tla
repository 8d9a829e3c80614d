-------------------------------- MODULE Network --------------------------------
(***************************************************************************)
(* What lies below TCP and UDP: the card with its two rings, the Ethernet, *)
(* ARP and IPv4 layers, used from two contexts.  The main loop opens one   *)
(* connection and may be interrupted between any two steps; the interrupt  *)
(* handler is not interrupted, but the card goes on while it runs.         *)
(*                                                                         *)
(* Other stations are external: they ask for this host's address, answer   *)
(* when asked, send datagrams once they know it, and change their card.    *)
(* A datagram is one that TCP answers, or a ping, which is sent back in    *)
(* the buffer it came in.                                                  *)
(***************************************************************************)
EXTENDS ArpCache, Integers

CONSTANTS
    Stations,      \* the hosts on this segment of the network
    Remote,        \* hosts behind the gateway
    Gateway,       \* the station that is the gateway
    RecvBuffers,   \* descriptors of the receive ring (8)
    SendBuffers,   \* descriptors of the send ring (8)
    MaxFrames      \* bound: frames the stations send of their own accord

ASSUME NetworkAssumption ==
    /\ Gateway \in Stations /\ Stations \cap Remote = {}
    /\ RecvBuffers \in Nat \ {0} /\ SendBuffers \in Nat \ {0}
    /\ MaxFrames \in Nat

VARIABLES
    cache,         \* IPcache and MACcache
    recv,          \* the frames in the receive ring, oldest first
    rint,          \* the card asks for an interrupt
    handler,       \* what the interrupt handler is at
    ring,          \* the send ring
    current,       \* currentSendBuffer
    main,          \* what the main loop is at, and its locals
    card,          \* the card's own place in the send ring
    mac,           \* the stations' addresses
    knows,         \* the stations that know this host's address
    frames,        \* how many frames the stations have sent
    asked,         \* history: the address in the last request of each
    missed,        \* history: stations whose response was not received
    raced, overrun \* history: see MainStores and HandlerSend

kernel  == <<cache, handler, current, main>>
outside == <<mac, knows, frames>>
history == <<asked, missed, raced, overrun>>
vars == <<kernel, recv, rint, ring, card, outside, history>>

Macs == {"first", "second"}

Slots == 0 .. SendBuffers - 1

(* Frames that come in; and those that go out, to a station.  An ARP       *)
(* request goes to all, but means one.                                     *)
Incoming(kind, from, host, address) ==
    [kind |-> kind, from |-> from, host |-> host, mac |-> address]

Outgoing(kind, to) == [kind |-> kind, to |-> to]

Request(to) == Outgoing("request", to)

Nothing == Outgoing("nothing", Gateway)
Torn == Outgoing("torn", Gateway)

Init ==
    /\ cache = <<>>
    /\ recv = <<>> /\ rint = FALSE
    /\ handler = "idle"
    /\ ring = [d \in Slots |-> [own |-> FALSE, frame |-> Nothing]]
    /\ current = 0 /\ card = 0
    /\ main = [at |-> "start", host |-> Gateway, frame |-> Nothing, slot |-> 0, load |-> 0]
    /\ mac = [s \in Stations |-> "first"]
    /\ knows = {} /\ frames = 0
    /\ asked = [s \in Stations |-> NoMac]
    /\ missed = {} /\ raced = FALSE /\ overrun = FALSE

(* InternetProtocolProvider::Send: what is outside the subnet goes to the  *)
(* gateway.  (Mutant: all hosts are asked for directly.)                   *)
RouteDirect(host) == host

Route(host) == IF host \in Stations THEN host ELSE Gateway

-----------------------------------------------------------------------------
(* The stations, and the card                                              *)

(* A frame reaches the card: it goes to the receive ring, if there is room. *)
Arrives(f) ==
    IF Len(recv) < RecvBuffers
    THEN recv' = Append(recv, f) /\ rint' = TRUE /\ UNCHANGED missed
    ELSE /\ UNCHANGED <<recv, rint>>
         /\ missed' = missed \cup (IF f.kind = "response" THEN {f.from} ELSE {})

Speaks(f) ==
    /\ frames < MaxFrames
    /\ frames' = frames + 1
    /\ Arrives(f)
    /\ UNCHANGED <<kernel, ring, card, mac, knows, asked, raced, overrun>>

(* An ARP request, for this host or for another one.                       *)
Asks(s) ==
    \/ Speaks(Incoming("request", s, s, mac[s]))
    \/ Speaks(Incoming("stray", s, s, mac[s]))

(* A host sends a datagram, through a station that knows the address.      *)
Talks(host) ==
    LET via == IF host \in Stations THEN host ELSE Gateway IN
    /\ via \in knows
    /\ \/ Speaks(Incoming("segment", via, host, mac[via]))
       \/ Speaks(Incoming("ping", via, host, mac[via]))

(* A station comes back with another card; it has forgotten this host.     *)
Replaces(s) ==
    /\ mac[s] = "first"
    /\ mac' = [mac EXCEPT ![s] = "second"]
    /\ knows' = knows \ {s}
    /\ UNCHANGED <<kernel, recv, rint, ring, card, frames, history>>

(* The card sends the frame at its place, if it owns it.  A station that   *)
(* is asked learns this host's address and answers, unless that is lost.   *)
Transmits ==
    LET f == ring[card].frame IN
    /\ ring[card].own
    /\ ring' = [ring EXCEPT ![card] = [own |-> FALSE, frame |-> Nothing]]
    /\ card' = (card + 1) % SendBuffers
    /\ knows' = IF f.kind \in {"request", "reply"} THEN knows \cup {f.to} ELSE knows
    /\ IF f.kind = "request" /\ f.to \in Stations
       THEN \/ Arrives(Incoming("response", f.to, f.to, mac[f.to]))
            \/ missed' = missed \cup {f.to} /\ UNCHANGED <<recv, rint>>
       ELSE UNCHANGED <<recv, rint, missed>>
    /\ UNCHANGED <<kernel, mac, frames, asked, raced, overrun>>

-----------------------------------------------------------------------------
(* The interrupt handler                                                   *)

(* The descriptor the main loop has taken but not given to the card yet.   *)
Filling == IF main.at \in {"copy", "copying", "copied"} THEN {main.slot} ELSE {}

InUse(d) == ring[d].own \/ d \in Filling

(* amd_am79c973::Send, in one piece: the next descriptor is taken, whoever *)
(* uses it.  (Mutant: the descriptor is not counted.)                      *)
HandlerSendHere(f) ==
    /\ ring' = [ring EXCEPT ![current] = [own |-> TRUE, frame |-> f]]
    /\ UNCHANGED current
    /\ overrun' = (overrun \/ InUse(current))
    /\ raced' = (raced \/ main.at \in {"load", "store"})

HandlerSend(f) ==
    /\ ring' = [ring EXCEPT ![current] = [own |-> TRUE, frame |-> f]]
    /\ current' = (current + 1) % SendBuffers
    /\ overrun' = (overrun \/ InUse(current))
    /\ raced' = (raced \/ main.at \in {"load", "store"})

SendsNothing == UNCHANGED <<ring, current, raced, overrun>>

(* HandleInterrupt reads the status and finds that frames have come.       *)
Interrupt ==
    /\ handler = "idle" /\ rint
    /\ handler' = "receiving"
    /\ UNCHANGED <<cache, current, main, recv, rint, ring, card, outside, history>>

(* An ARP request for this host is answered, and its sender remembered.    *)
OnRequest(f) ==
    /\ f.kind = "request"
    /\ cache' = AddMacAddress(cache, f.from, f.mac)
    /\ asked' = [asked EXCEPT ![f.from] = f.mac]
    /\ HandlerSend(Outgoing("reply", f.from))
    /\ UNCHANGED handler

OnResponse(f) ==
    /\ f.kind = "response"
    /\ cache' = AddResponse(cache, f.from, f.mac)
    /\ SendsNothing
    /\ UNCHANGED <<handler, asked>>

(* A ping goes back the way it came.                                       *)
OnPing(f) ==
    /\ f.kind = "ping"
    /\ HandlerSend(Outgoing("pong", f.from))
    /\ UNCHANGED <<cache, handler, asked>>

(* A segment's answer needs an address: Resolve, if the cache has none,    *)
(* asks for it and waits, with interrupts off.                             *)
OnSegment(f) ==
    LET route == Route(f.host) IN
    /\ f.kind = "segment"
    /\ IF GetMACFromCache(cache, route) # NoMac
       THEN HandlerSend(Outgoing("segment", route)) /\ UNCHANGED handler
       ELSE HandlerSend(Request(route)) /\ handler' = "waiting"
    /\ UNCHANGED <<cache, asked>>

OnStray(f) ==
    /\ f.kind = "stray"
    /\ SendsNothing
    /\ UNCHANGED <<cache, handler, asked>>

(* The frame and the IP layer hand on what is for this host, and send what *)
(* has been answered in place back to the station it came from.            *)
OnInternetProtocolReceived(f) == OnPing(f) \/ OnSegment(f)

OnRawDataReceived(f) ==
    OnRequest(f) \/ OnResponse(f) \/ OnStray(f) \/ OnInternetProtocolReceived(f)

(* Receive, for the oldest frame in the ring; its descriptor goes back to  *)
(* the card when the handlers are done with it.                            *)
Receives ==
    /\ handler = "receiving" /\ recv # <<>>
    /\ OnRawDataReceived(Head(recv))
    /\ recv' = IF handler' = "waiting" THEN recv ELSE Tail(recv)
    /\ UNCHANGED <<main, rint, card, outside, missed>>

(* The ring is found empty; then the interrupt is acknowledged, and with   *)
(* it one for a frame that came in between.                                *)
FoundEmpty ==
    /\ handler = "receiving" /\ recv = <<>>
    /\ handler' = "acknowledging"
    /\ UNCHANGED <<cache, current, main, recv, rint, ring, card, outside, history>>

Acknowledge ==
    /\ handler = "acknowledging"
    /\ handler' = "idle" /\ rint' = FALSE
    /\ UNCHANGED <<cache, current, main, recv, ring, card, outside, history>>

-----------------------------------------------------------------------------
(* The main loop, which runs while no handler does: int_bottom returns to  *)
(* it when HandleInterrupt is done, and interrupts are off until then.     *)

MainAt(place) == handler = "idle" /\ main.at = place

MainGoes(locals) ==
    /\ main' = locals
    /\ UNCHANGED <<cache, handler, recv, rint, card, outside, asked, missed>>

Quiet == UNCHANGED <<ring, current, raced, overrun>>

(* Connect: IP resolves the route, by asking for it if need be.            *)
Connects(host) ==
    /\ MainAt("start")
    /\ LET known == GetMACFromCache(cache, Route(host)) # NoMac IN
          MainGoes([main EXCEPT !.at = "take", !.host = host,
                       !.frame = IF known THEN Outgoing("segment", Route(host))
                                 ELSE Request(Route(host))])
    /\ Quiet

(* Send, step by step: the descriptor is read, and read again to be        *)
(* counted; the frame is copied, from its end to its start; the card gets  *)
(* the descriptor.                                                         *)
MainTakes ==
    /\ MainAt("take")
    /\ MainGoes([main EXCEPT !.at = "load", !.slot = current])
    /\ Quiet

MainLoads ==
    /\ MainAt("load")
    /\ MainGoes([main EXCEPT !.at = "store", !.load = current])
    /\ Quiet

MainStores ==
    /\ MainAt("store")
    /\ MainGoes([main EXCEPT !.at = "copy"])
    /\ current' = (main.load + 1) % SendBuffers
    /\ overrun' = (overrun \/ InUse(main.slot))
    /\ UNCHANGED <<ring, raced>>

MainCopies ==
    /\ MainAt("copy")
    /\ MainGoes([main EXCEPT !.at = "copying"])
    /\ ring' = [ring EXCEPT ![main.slot].frame = Torn]
    /\ UNCHANGED <<current, raced, overrun>>

MainCopied ==
    /\ MainAt("copying")
    /\ MainGoes([main EXCEPT !.at = "copied"])
    /\ ring' = [ring EXCEPT ![main.slot].frame =
                   IF ring[main.slot] = [own |-> FALSE, frame |-> Torn] THEN main.frame ELSE Torn]
    /\ UNCHANGED <<current, raced, overrun>>

MainGives ==
    /\ MainAt("copied")
    /\ MainGoes([main EXCEPT !.at = IF main.frame.kind = "request" THEN "wait" ELSE "done",
                             !.slot = 0, !.load = 0])   \* locals, gone
    /\ ring' = [ring EXCEPT ![main.slot].own = TRUE]
    /\ UNCHANGED <<current, raced, overrun>>

(* Resolve's loop ends once the address is in the cache.                   *)
MainResolves ==
    /\ MainAt("wait")
    /\ GetMACFromCache(cache, Route(main.host)) # NoMac
    /\ MainGoes([main EXCEPT !.at = "take", !.frame = Outgoing("segment", Route(main.host))])
    /\ Quiet

Main ==
    \/ MainTakes \/ MainLoads \/ MainStores
    \/ MainCopies \/ MainCopied \/ MainGives \/ MainResolves

(* The interrupt manager calls the card's handler, and no other meanwhile. *)
Handler == Interrupt \/ Receives \/ FoundEmpty \/ Acknowledge

Next ==
    \/ \E s \in Stations : Asks(s) \/ Replaces(s)
    \/ \E host \in Stations \cup Remote : Talks(host) \/ Connects(host)
    \/ Transmits \/ Handler \/ Main

Spec == Init /\ [][Next]_vars

(* The card sends what it owns and its interrupts are served; the main     *)
(* loop gets on.                                                           *)
FairSpec == Spec /\ WF_vars(Transmits) /\ WF_vars(Handler) /\ WF_vars(Main)

-----------------------------------------------------------------------------
(* Type invariant: cache and rings keep to their sizes.                    *)
TypeOK ==
    /\ Len(cache) <= CacheSize
    /\ \A i \in DOMAIN cache : cache[i].ip \in Stations /\ cache[i].mac \in Macs
    /\ Len(recv) <= RecvBuffers /\ rint \in BOOLEAN
    /\ handler \in {"idle", "receiving", "waiting", "acknowledging"}
    /\ \A d \in Slots : ring[d].own \in BOOLEAN /\ ring[d].frame.to \in Stations
    /\ {current, card, main.slot, main.load} \subseteq Slots
    /\ knows \subseteq Stations /\ missed \subseteq Stations

CacheFull == Len(cache) = CacheSize

(* The kernel hangs in an interrupt handler (arp.cpp 159) only if the      *)
(* cache was full or an ARP response got lost: whoever can send a segment  *)
(* has asked for this host's address, and was remembered, or has answered  *)
(* this host's own request before.                                         *)
HangsOnlyByLoss ==
    handler = "waiting" => CacheFull \/ missed # {}

(* While the cache has room, a station is reached at the address it gave   *)
(* in its last request, however many entries it has and whichever of its   *)
(* responses came late.                                                    *)
LastRequestCounts ==
    \A s \in Stations :
        (asked[s] # NoMac /\ ~CacheFull) => GetMACFromCache(cache, s) = asked[s]

(* The descriptors the card owns follow each other from the card's place   *)
(* to currentSendBuffer, and the one the main loop fills is among them;    *)
(* so every frame goes out, in order.  This ends when a handler sends      *)
(* while the main loop counts its descriptor, or a sender catches up with  *)
(* the card.                                                               *)
RingInStep ==
    /\ TypeOK
    /\ (~raced /\ ~overrun) =>
        \E n \in 0 .. SendBuffers :
            /\ current = (card + n) % SendBuffers
            /\ {d \in Slots : ring[d].own} \cup Filling
                  = {(card + i) % SendBuffers : i \in 0 .. n - 1}

(* A frame in the ring that came between the last look and the             *)
(* acknowledgement waits for the next one.                                 *)
Overlooked == recv # <<>> /\ ~rint /\ handler = "idle"

(* Connect gets through, and there is no other way to hang than these: a   *)
(* lost response, a full cache (arp.cpp 56), a frame overlooked            *)
(* (amd_am79c973.cpp 152), a handler that waits (arp.cpp 159), a send ring *)
(* out of step (amd_am79c973.cpp 187).                                     *)
ConnectsInTheEnd ==
    (main.at = "wait") ~>
        \/ main.at = "done"
        \/ missed # {} \/ CacheFull \/ Overlooked
        \/ handler = "waiting" \/ raced \/ overrun
=============================================================================
