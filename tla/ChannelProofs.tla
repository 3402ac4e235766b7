---------------------------- MODULE ChannelProofs ---------------------------
(***************************************************************************)
(* Proof of ClosedChannelsLeaveMaps: a closed channel is in a map only     *)
(* while the goroutine that closed it is about to delete the entry.        *)
(*                                                                         *)
(* The step that matters is a close: of all entries that hold the channel, *)
(* the goroutine deletes that of its own address.  There is no other one:  *)
(* a channel is made for one address, and map, goroutine and whoever has   *)
(* looked it up agree on which (Bound).  And a new channel is not closed   *)
(* and nobody has it yet (InUse).                                          *)
(***************************************************************************)
EXTENDS ManagerProofs

Channels == Timers \cup Unblockers

(* The next step closes, or deletes the entry of, a channel.               *)
Closing == {"action.close", "manual.close", "manual.close2"}
Deleting == {"action.delete", "manual.delete", "manual.delete2"}

(* home tells which address each channel was made for.                     *)
BoundTo(home) ==
  /\ \A ip \in IPs : cancel[ip] # None => home[cancel[ip]] = ip
  /\ \A ip \in IPs : unblockCancel[ip] # None => home[unblockCancel[ip]] = ip
  /\ \A g \in Goroutines : go[g].pc \in Closing => home[go[g].chan] = go[g].ip
  /\ \A c \in Channels : go[c].ip \in IPs => home[c] = go[c].ip

Bound == \E home \in [Channels -> IPs \cup {None}] : BoundTo(home)

(* Channels that are closed, or in a map, or looked up, have been made.    *)
InUse ==
  /\ \A c \in closed : go[c].pc # "new"
  /\ \A ip \in IPs : cancel[ip] # None => go[cancel[ip]].pc # "new"
  /\ \A ip \in IPs : unblockCancel[ip] # None => go[unblockCancel[ip]].pc # "new"
  /\ \A g \in Goroutines : go[g].pc \in Closing => go[go[g].chan].pc # "new"

ChannelsOK == Bound /\ InUse /\ ClosedChannelsLeaveMaps

-----------------------------------------------------------------------------
(* The kinds of steps *)

(* A goroutine that holds a channel holds one.                             *)
LEMMA HeldChannel ==
  ASSUME StateOK
  PROVE  /\ \A g \in Goroutines : go[g].pc \in Closing =>
              go[g].chan \in Channels /\ go[g].ip \in IPs
         /\ \A ip \in IPs : cancel[ip] # None => cancel[ip] \in Timers
         /\ \A ip \in IPs : unblockCancel[ip] # None => unblockCancel[ip] \in Unblockers
         /\ closed \subseteq Channels
         /\ Channels \subseteq Goroutines
         /\ None \notin Goroutines
BY ManagerAssumption
   DEF StateOK, GoOK, FrameOK, MapsOK, Closing, TimerClosing, Ended, Channels, Goroutines

(* What a step that leaves the maps alone does to a goroutine: it looks up *)
(* a channel in a map, or none; it does not skip a deletion; and a channel *)
(* keeps its address until its goroutine ends.                             *)
Kept(h) ==
  /\ go'[h].pc = "new" => go[h].pc = "new"
  /\ h \in Channels /\ go'[h].ip \in IPs => go'[h].ip = go[h].ip
  /\ go[h].pc \in Deleting => go'[h].pc = go[h].pc /\ go'[h].ip = go[h].ip
  /\ go'[h].pc \in Closing =>
       \/ go[h].pc \in Closing /\ go'[h].chan = go[h].chan /\ go'[h].ip = go[h].ip
       \/ /\ go'[h].ip \in IPs
          /\ go'[h].chan # None
          /\ go'[h].chan \in {cancel[go'[h].ip], unblockCancel[go'[h].ip]}

(* Such a step keeps the invariant.                                        *)
LEMMA KeptOK ==
  ASSUME StateOK, ChannelsOK, UNCHANGED maps, \A h \in Goroutines : Kept(h)
  PROVE  ChannelsOK'
<1>0. UNCHANGED <<cancel, unblockCancel, closed>>
  BY DEF maps
<1>1. Bound'
  <2>1. PICK home \in [Channels -> IPs \cup {None}] : BoundTo(home)
    BY DEF ChannelsOK, Bound
  <2>2. BoundTo(home)'
    BY <1>0, <2>1, HeldChannel DEF BoundTo, Kept
  <2>. QED BY <2>2 DEF Bound
<1>2. InUse'
  <2>1. \A c \in Channels : go[c].pc # "new" => go'[c].pc # "new"
    BY HeldChannel DEF Kept
  <2>2. \A g \in Goroutines : go'[g].pc \in Closing =>
          go'[g].chan \in Channels /\ go[go'[g].chan].pc # "new"
    BY HeldChannel DEF ChannelsOK, InUse, Kept, Channels
  <2>3. /\ \A c \in closed : c \in Channels
        /\ \A ip \in IPs : cancel[ip] # None => cancel[ip] \in Channels
        /\ \A ip \in IPs : unblockCancel[ip] # None => unblockCancel[ip] \in Channels
    BY HeldChannel DEF Channels
  <2>. QED BY <1>0, <2>1, <2>2, <2>3 DEF ChannelsOK, InUse
<1>3. ClosedChannelsLeaveMaps'
  BY <1>0 DEF ChannelsOK, ClosedChannelsLeaveMaps, DeletesTimer, DeletesUnblock, Kept,
              Deleting, At
<1>. QED BY <1>1, <1>2, <1>3 DEF ChannelsOK

(* The process stops: there are no channels any more.                      *)
LEMMA StopsChannels ==
  ASSUME StateOK, ChannelsOK, Stops PROVE ChannelsOK'
<1>0. /\ \A ip \in IPs : cancel'[ip] = None /\ unblockCancel'[ip] = None
      /\ closed' = {}
      /\ \A g \in Goroutines :
           go'[g] = IF go[g].pc \in Ended \cup {"new"} THEN go[g] ELSE Frame("failed")
  BY DEF Stops
<1>1. \A g \in Goroutines : go'[g].pc \notin Closing
  BY <1>0 DEF Closing, Ended, Frame
<1>2. \A c \in Channels : go'[c].ip \in IPs => go'[c].ip = go[c].ip
  BY <1>0, HeldChannel, ManagerAssumption DEF Frame
<1>3. Bound'
  BY <1>0, <1>1, <1>2 DEF ChannelsOK, Bound, BoundTo
<1>4. InUse'
  BY <1>0, <1>1 DEF InUse
<1>5. ClosedChannelsLeaveMaps'
  BY <1>0 DEF ClosedChannelsLeaveMaps
<1>. QED BY <1>3, <1>4, <1>5 DEF ChannelsOK

(* A close: the goroutine goes on to delete the entry.                     *)
LEMMA ClosesChannels ==
  ASSUME StateOK, ChannelsOK, NEW g \in Goroutines, go[g].pc \in Closing,
         NEW l \in Deleting, Goto(g, l),
         closed' = closed \cup {go[g].chan}, UNCHANGED <<cancel, unblockCancel>>,
         go[g].chan \in Timers => l \in {"action.delete", "manual.delete"},
         go[g].chan \in Unblockers => l = "manual.delete2"
  PROVE  ChannelsOK'
<1>0. /\ \A h \in Goroutines : h # g => go'[h] = go[h]
      /\ go'[g].pc = l /\ go'[g].ip = go[g].ip
  BY DEF StateOK, GoOK, Goto, Frames
<1>1. l \notin Closing /\ l # "new" /\ go[g].pc \notin Deleting /\ go[g].pc # "new"
  BY DEF Closing, Deleting
<1>2. \A h \in Goroutines : go'[h].ip = go[h].ip
  BY <1>0
<1>3. PICK home \in [Channels -> IPs \cup {None}] : BoundTo(home)
  BY DEF ChannelsOK, Bound
<1>4. Bound'
  <2>1. BoundTo(home)'
    BY <1>0, <1>1, <1>2, <1>3, HeldChannel DEF BoundTo
  <2>. QED BY <2>1 DEF Bound
<1>5. InUse'
  <2>1. \A h \in Goroutines : go[h].pc # "new" => go'[h].pc # "new"
    BY <1>0, <1>1
  <2>2. go[g].chan \in Goroutines /\ go[go[g].chan].pc # "new"
    BY HeldChannel DEF ChannelsOK, InUse
  <2>3. \A h \in Goroutines : go'[h].pc \in Closing => h # g
    BY <1>0, <1>1
  <2>4. /\ \A c \in closed : c \in Goroutines
        /\ \A ip \in IPs : cancel[ip] # None => cancel[ip] \in Goroutines
        /\ \A ip \in IPs : unblockCancel[ip] # None => unblockCancel[ip] \in Goroutines
        /\ \A h \in Goroutines : go[h].pc \in Closing => go[h].chan \in Goroutines
    BY HeldChannel DEF Channels
  <2>. QED BY <1>0, <2>1, <2>2, <2>3, <2>4 DEF ChannelsOK, InUse
<1>6. ASSUME NEW ip \in IPs, cancel[ip] \in closed'
      PROVE  \E h \in Goroutines : DeletesTimer(h, ip)'
  <2>1. CASE cancel[ip] \in closed
    BY <1>0, <1>1, <2>1 DEF ChannelsOK, ClosedChannelsLeaveMaps, DeletesTimer, Deleting
  <2>2. CASE cancel[ip] = go[g].chan
    <3>1. home[go[g].chan] = ip /\ go[g].ip = ip /\ go[g].chan \in Timers
      BY <1>3, <2>2, HeldChannel DEF BoundTo
    <3>. QED BY <1>0, <3>1 DEF DeletesTimer
  <2>. QED BY <1>6, <2>1, <2>2
<1>7. ASSUME NEW ip \in IPs, unblockCancel[ip] \in closed'
      PROVE  \E h \in Goroutines : DeletesUnblock(h, ip)'
  <2>1. CASE unblockCancel[ip] \in closed
    BY <1>0, <1>1, <2>1 DEF ChannelsOK, ClosedChannelsLeaveMaps, DeletesUnblock, Deleting, At
  <2>2. CASE unblockCancel[ip] = go[g].chan
    <3>1. home[go[g].chan] = ip /\ go[g].ip = ip /\ go[g].chan \in Unblockers
      BY <1>3, <2>2, HeldChannel DEF BoundTo
    <3>. QED BY <1>0, <3>1 DEF DeletesUnblock, At
  <2>. QED BY <1>7, <2>1, <2>2
<1>8. ClosedChannelsLeaveMaps'
  BY <1>6, <1>7 DEF ClosedChannelsLeaveMaps
<1>. QED BY <1>4, <1>5, <1>8 DEF ChannelsOK

(* An entry of cancel is deleted: who goes on had no other to delete.      *)
LEMMA DeletesTimerChannels ==
  ASSUME StateOK, ChannelsOK, NEW g \in Goroutines, go[g].ip \in IPs,
         go[g].pc \notin {"new", "manual.delete2"},
         cancel' = [cancel EXCEPT ![go[g].ip] = None], UNCHANGED <<unblockCancel, closed>>,
         \A h \in Goroutines : h # g => go'[h] = go[h],
         go'[g].pc \notin Closing \cup {"new"}, go'[g].ip \in {go[g].ip, None}
  PROVE  ChannelsOK'
<1>0. /\ \A ip \in IPs : cancel'[ip] = IF ip = go[g].ip THEN None ELSE cancel[ip]
      /\ unblockCancel' = unblockCancel /\ closed' = closed
  BY DEF StateOK, MapsOK
<1>1. /\ \A h \in Goroutines : go'[h].pc \in Closing => h # g
      /\ \A h \in Goroutines : go[h].pc # "new" => go'[h].pc # "new"
      /\ \A h \in Goroutines : go'[h].ip \in IPs => go'[h].ip = go[h].ip
  BY ManagerAssumption
<1>2. Bound'
  <2>1. PICK home \in [Channels -> IPs \cup {None}] : BoundTo(home)
    BY DEF ChannelsOK, Bound
  <2>2. BoundTo(home)'
    BY <1>0, <1>1, <2>1, HeldChannel DEF BoundTo
  <2>. QED BY <2>2 DEF Bound
<1>3. InUse'
  <2>1. /\ \A c \in closed : c \in Goroutines
        /\ \A ip \in IPs : cancel[ip] # None => cancel[ip] \in Goroutines
        /\ \A ip \in IPs : unblockCancel[ip] # None => unblockCancel[ip] \in Goroutines
        /\ \A h \in Goroutines : go[h].pc \in Closing => go[h].chan \in Goroutines
    BY HeldChannel DEF Channels
  <2>. QED BY <1>0, <1>1, <2>1 DEF ChannelsOK, InUse
<1>4. ASSUME NEW ip \in IPs, cancel'[ip] \in closed
      PROVE  \E h \in Goroutines : DeletesTimer(h, ip)'
  <2>1. ip # go[g].ip /\ cancel[ip] \in closed
    BY <1>0, <1>4, HeldChannel
  <2>. QED BY <2>1 DEF ChannelsOK, ClosedChannelsLeaveMaps, DeletesTimer
<1>5. ASSUME NEW ip \in IPs, unblockCancel[ip] \in closed
      PROVE  \E h \in Goroutines : DeletesUnblock(h, ip)'
  BY <1>5 DEF ChannelsOK, ClosedChannelsLeaveMaps, DeletesUnblock, At
<1>6. ClosedChannelsLeaveMaps'
  BY <1>0, <1>4, <1>5 DEF ClosedChannelsLeaveMaps
<1>. QED BY <1>2, <1>3, <1>6 DEF ChannelsOK

(* And one of unblockCancel.                                               *)
LEMMA DeletesUnblockChannels ==
  ASSUME StateOK, ChannelsOK, NEW g \in Goroutines, go[g].ip \in IPs,
         go[g].pc \notin {"new", "action.delete", "manual.delete"},
         unblockCancel' = [unblockCancel EXCEPT ![go[g].ip] = None],
         UNCHANGED <<cancel, closed>>,
         \A h \in Goroutines : h # g => go'[h] = go[h],
         go'[g].pc \notin Closing \cup {"new"}, go'[g].ip \in {go[g].ip, None}
  PROVE  ChannelsOK'
<1>0. /\ \A ip \in IPs : unblockCancel'[ip] = IF ip = go[g].ip THEN None ELSE unblockCancel[ip]
      /\ cancel' = cancel /\ closed' = closed
  BY DEF StateOK, MapsOK
<1>1. /\ \A h \in Goroutines : go'[h].pc \in Closing => h # g
      /\ \A h \in Goroutines : go[h].pc # "new" => go'[h].pc # "new"
      /\ \A h \in Goroutines : go'[h].ip \in IPs => go'[h].ip = go[h].ip
  BY ManagerAssumption
<1>2. Bound'
  <2>1. PICK home \in [Channels -> IPs \cup {None}] : BoundTo(home)
    BY DEF ChannelsOK, Bound
  <2>2. BoundTo(home)'
    BY <1>0, <1>1, <2>1, HeldChannel DEF BoundTo
  <2>. QED BY <2>2 DEF Bound
<1>3. InUse'
  <2>1. /\ \A c \in closed : c \in Goroutines
        /\ \A ip \in IPs : cancel[ip] # None => cancel[ip] \in Goroutines
        /\ \A ip \in IPs : unblockCancel[ip] # None => unblockCancel[ip] \in Goroutines
        /\ \A h \in Goroutines : go[h].pc \in Closing => go[h].chan \in Goroutines
    BY HeldChannel DEF Channels
  <2>. QED BY <1>0, <1>1, <2>1 DEF ChannelsOK, InUse
<1>4. ASSUME NEW ip \in IPs, unblockCancel'[ip] \in closed
      PROVE  \E h \in Goroutines : DeletesUnblock(h, ip)'
  <2>1. ip # go[g].ip /\ unblockCancel[ip] \in closed
    BY <1>0, <1>4, HeldChannel
  <2>. QED BY <2>1 DEF ChannelsOK, ClosedChannelsLeaveMaps, DeletesUnblock, At
<1>5. ASSUME NEW ip \in IPs, cancel[ip] \in closed
      PROVE  \E h \in Goroutines : DeletesTimer(h, ip)'
  BY <1>5 DEF ChannelsOK, ClosedChannelsLeaveMaps, DeletesTimer
<1>6. ClosedChannelsLeaveMaps'
  BY <1>0, <1>4, <1>5 DEF ClosedChannelsLeaveMaps
<1>. QED BY <1>2, <1>3, <1>6 DEF ChannelsOK

(* A new channel is put into its map: nobody has it, it is not closed.     *)
LEMMA StartsChannels ==
  ASSUME StateOK, ChannelsOK, NEW g \in Goroutines, NEW c \in Channels, c # g,
         go[g].ip \in IPs, go[c].pc = "new", go[g].pc \notin Closing \cup Deleting \cup {"new"},
         \/ c \in Timers /\ cancel' = [cancel EXCEPT ![go[g].ip] = c]
            /\ UNCHANGED unblockCancel
         \/ c \in Unblockers /\ unblockCancel' = [unblockCancel EXCEPT ![go[g].ip] = c]
            /\ UNCHANGED cancel,
         UNCHANGED closed,
         \A h \in Goroutines : h \notin {g, c} => go'[h] = go[h],
         go'[g].ip = go[g].ip, go'[c].ip = go[g].ip,
         go'[g].pc \notin Closing \cup {"new"}, go'[c].pc \notin Closing \cup {"new"}
  PROVE  ChannelsOK'
<1>0. /\ \A ip \in IPs : cancel'[ip] = cancel[ip] \/ (ip = go[g].ip /\ cancel'[ip] = c)
      /\ \A ip \in IPs : \/ unblockCancel'[ip] = unblockCancel[ip]
                         \/ ip = go[g].ip /\ unblockCancel'[ip] = c
      /\ closed' = closed
  BY DEF StateOK, MapsOK
<1>1. /\ \A h \in Goroutines : go'[h].pc \in Closing => h # g /\ h # c
      /\ \A h \in Goroutines : go[h].pc # "new" => go'[h].pc # "new"
      /\ \A h \in Goroutines : h # c => go'[h].ip = go[h].ip
      /\ \A h \in Goroutines : go[h].pc \in Deleting => h # g /\ h # c
  BY DEF Deleting
<1>2. /\ c \in Goroutines /\ c # None
      /\ \A h \in Goroutines : go[h].pc \in Closing => go[h].chan # c
      /\ \A ip \in IPs : cancel[ip] # c /\ unblockCancel[ip] # c
      /\ c \notin closed
  BY HeldChannel DEF ChannelsOK, InUse
<1>3. Bound'
  <2>1. PICK home \in [Channels -> IPs \cup {None}] : BoundTo(home)
    BY DEF ChannelsOK, Bound
  <2>2. PICK new \in [Channels -> IPs \cup {None}] :
          /\ new[c] = go[g].ip
          /\ \A d \in Channels : d # c => new[d] = home[d]
    <3>. DEFINE w == [home EXCEPT ![c] = go[g].ip]
    <3>1. /\ w \in [Channels -> IPs \cup {None}]
          /\ w[c] = go[g].ip
          /\ \A d \in Channels : d # c => w[d] = home[d]
      OBVIOUS
    <3>. HIDE DEF w
    <3>. QED BY <3>1
  <2>3. BoundTo(new)'
    <3>1. /\ \A ip \in IPs : cancel'[ip] # None => new[cancel'[ip]] = ip
          /\ \A ip \in IPs : unblockCancel'[ip] # None => new[unblockCancel'[ip]] = ip
      BY <1>0, <1>2, <2>1, <2>2, HeldChannel DEF BoundTo, Channels
    <3>2. \A h \in Goroutines : go'[h].pc \in Closing => new[go'[h].chan] = go'[h].ip
      BY <1>1, <1>2, <2>1, <2>2, HeldChannel DEF BoundTo
    <3>3. \A d \in Channels : go'[d].ip \in IPs => new[d] = go'[d].ip
      BY <1>1, <1>2, <2>1, <2>2, HeldChannel DEF BoundTo
    <3>. QED BY <3>1, <3>2, <3>3 DEF BoundTo
  <2>. QED BY <2>2, <2>3 DEF Bound
<1>4. InUse'
  <2>1. /\ \A d \in closed : d \in Goroutines
        /\ \A ip \in IPs : cancel[ip] # None => cancel[ip] \in Goroutines
        /\ \A ip \in IPs : unblockCancel[ip] # None => unblockCancel[ip] \in Goroutines
        /\ \A h \in Goroutines : go[h].pc \in Closing => go[h].chan \in Goroutines
    BY HeldChannel DEF Channels
  <2>. QED BY <1>0, <1>1, <2>1 DEF ChannelsOK, InUse
<1>5. ASSUME NEW ip \in IPs, cancel'[ip] \in closed
      PROVE  \E h \in Goroutines : DeletesTimer(h, ip)'
  <2>1. cancel[ip] \in closed
    BY <1>0, <1>2, <1>5
  <2>. QED BY <1>1, <2>1 DEF ChannelsOK, ClosedChannelsLeaveMaps, DeletesTimer, Deleting
<1>6. ASSUME NEW ip \in IPs, unblockCancel'[ip] \in closed
      PROVE  \E h \in Goroutines : DeletesUnblock(h, ip)'
  <2>1. unblockCancel[ip] \in closed
    BY <1>0, <1>2, <1>6
  <2>. QED BY <1>1, <2>1 DEF ChannelsOK, ClosedChannelsLeaveMaps, DeletesUnblock, Deleting, At
<1>7. ClosedChannelsLeaveMaps'
  BY <1>0, <1>5, <1>6 DEF ClosedChannelsLeaveMaps
<1>. QED BY <1>3, <1>4, <1>7 DEF ChannelsOK

-----------------------------------------------------------------------------
(* The actions *)

(* A step of one goroutine that leaves the maps alone and looks nothing up *)
(* keeps the invariant.                                                    *)
LEMMA CalmStep ==
  ASSUME StateOK, ChannelsOK, UNCHANGED maps, NEW g \in Goroutines,
         \A h \in Goroutines : h # g => go'[h] = go[h],
         go[g].pc \notin Deleting, go'[g].pc \notin Closing \cup {"new"},
         g \notin Channels \/ go'[g].ip \in {go[g].ip, None}
  PROVE  ChannelsOK'
<1>1. Kept(g)
  BY ManagerAssumption DEF Kept
<1>2. \A h \in Goroutines : h # g => Kept(h)
  BY DEF Kept
<1>. QED BY <1>1, <1>2, KeptOK

(* So does a lookup.                                                       *)
LEMMA LookupStep ==
  ASSUME StateOK, ChannelsOK, UNCHANGED maps, NEW g \in Goroutines, NEW map,
         map = cancel \/ map = unblockCancel, go[g].ip \in IPs,
         go[g].pc \notin Deleting \cup Closing,
         \A h \in Goroutines : h # g => go'[h] = go[h],
         go'[g].ip = go[g].ip, go'[g].pc # "new",
         \/ map[go[g].ip] # None /\ go'[g].chan = map[go[g].ip]
         \/ go'[g].pc \notin Closing
  PROVE  ChannelsOK'
<1>1. Kept(g)
  BY DEF Kept
<1>2. \A h \in Goroutines : h # g => Kept(h)
  BY DEF Kept
<1>. QED BY <1>1, <1>2, KeptOK

(* And a panic.                                                            *)
LEMMA PanicChannels ==
  ASSUME StateOK, ChannelsOK, NEW g \in Goroutines, go[g].pc \notin Deleting, Panics(g)
  PROVE  ChannelsOK'
<1>1. CASE g \in Requests /\ End(g, "failed") /\ UNCHANGED <<maps, crashed>>
  <2>1. /\ \A h \in Goroutines : h # g => go'[h] = go[h]
        /\ go'[g].pc = "failed" /\ go'[g].ip = None
    BY <1>1 DEF End, Frame, StateOK, GoOK
  <2>. QED BY <1>1, <2>1, CalmStep DEF Closing
<1>. QED BY <1>1, StopsChannels DEF Panics

(* And a close of a channel of either map.                                 *)
LEMMA CloseChannels ==
  ASSUME StateOK, ChannelsOK, NEW g \in Goroutines, NEW l \in Deleting, Closes(g, l),
         \/ go[g].pc \in TimerClosing /\ l \in {"action.delete", "manual.delete"}
         \/ go[g].pc = "manual.close2" /\ l = "manual.delete2"
  PROVE  ChannelsOK'
<1>1. go[g].pc \in Closing /\ go[g].pc \notin Deleting
  BY DEF TimerClosing, Closing, Deleting
<1>2. /\ go[g].chan \in Timers => l \in {"action.delete", "manual.delete"}
      /\ go[g].chan \in Unblockers => l = "manual.delete2"
  BY KindsDiffer DEF StateOK, GoOK, FrameOK
<1>3. CASE go[g].chan \notin closed
  BY <1>1, <1>2, <1>3, ClosesChannels DEF Closes
<1>4. CASE go[g].chan \in closed
  BY <1>1, <1>4, PanicChannels DEF Closes
<1>. QED BY <1>3, <1>4

(* No request is a channel.                                                *)
LEMMA RequestsAreNoChannels == Requests \cap Channels = {}
BY KindsDiffer DEF Requests, Channels

(* A goroutine that starts on an address.                                  *)
LEMMA PlainStep ==
  ASSUME NEW g \in Goroutines, go \in [Goroutines -> Frames], NEW ip, NEW l,
         go' = [go EXCEPT ![g].ip = ip, ![g].pc = l]
  PROVE  (\A h \in Goroutines : h # g => go'[h] = go[h]) /\ go'[g].pc = l
<1>. DEFINE f == go[g]
<1>1. DOMAIN f = {"pc", "ip", "rec", "arec", "chan", "due", "action"}
  BY DEF Frames
<1>2. go' = [go EXCEPT ![g] = [[f EXCEPT !.ip = ip] EXCEPT !.pc = l]]
  OBVIOUS
<1>. HIDE DEF f
<1>. QED BY <1>1, <1>2

(* And one that ends at once.                                              *)
LEMMA EndStarts ==
  ASSUME NEW g \in Goroutines, go \in [Goroutines -> Frames], NEW l, End(g, l)
  PROVE  (\A h \in Goroutines : h # g => go'[h] = go[h]) /\ go'[g].pc = l
BY DEF End, Frame

(* handleEvent and the timer it starts.                                    *)
LEMMA EventChannels ==
  ASSUME StateOK, ChannelsOK, NEW e \in Events, EventArrives(e) \/ EventSteps(e)
  PROVE  ChannelsOK'
<1>0. /\ e \notin Channels /\ e \in Goroutines /\ go \in [Goroutines -> Frames]
  BY RequestsAreNoChannels DEF StateOK, GoOK, Goroutines, Requests
<1>. DEFINE Calm == /\ UNCHANGED maps
                    /\ go[e].pc \notin Deleting
                    /\ \A h \in Goroutines : h # e => go'[h] = go[h]
                    /\ go'[e].pc \notin Closing \cup {"new"}
<1>c. Calm => ChannelsOK'
  BY <1>0, CalmStep
<1>1. CASE EventArrives(e)
  <2>0. go[e].pc = "new"
    BY <1>1 DEF EventArrives, Arrives, Fresh, At
  <2>1. /\ \A h \in Goroutines : h # e => go'[h] = go[h]
        /\ go'[e].pc \in {"done", "event.select"}
    <3>1. CASE End(e, "done")
      BY <1>0, <3>1, EndStarts
    <3>2. ASSUME NEW ip, go' = [go EXCEPT ![e].ip = ip, ![e].pc = "event.select"]
          PROVE  /\ \A h \in Goroutines : h # e => go'[h] = go[h]
                 /\ go'[e].pc = "event.select"
      BY <1>0, <3>2, PlainStep
    <3>. QED BY <1>1, <3>1, <3>2 DEF EventArrives
  <2>2. Calm
    BY <1>1, <2>0, <2>1 DEF EventArrives, Closing, Deleting
  <2>. QED BY <1>c, <2>2
<1>2. CASE EventSelects(e)
  <2>1. Calm
    BY <1>0, <1>2 DEF EventSelects, At, EventCounts, AfterCount, Goto, End, Frame, Frames,
                      Closing, Deleting
  <2>. QED BY <1>c, <2>1
<1>3. CASE EventInserts(e)
  <2>1. Calm
    BY <1>0, <1>3 DEF EventInserts, At, EventCounts, AfterCount, End, Frame, Frames,
                      Closing, Deleting
  <2>. QED BY <1>c, <2>1
<1>4. CASE EventNotifies(e)
  <2>1. Calm
    BY <1>0, <1>4 DEF EventNotifies, At, Goto, Frames, Closing, Deleting
  <2>. QED BY <1>c, <2>1
<1>5. CASE EventArms(e)
  <2>1. PICK t \in Timers :
          /\ Fresh(t, Timers)
          /\ cancel' = [cancel EXCEPT ![go[e].ip] = t]
          /\ go' = [go EXCEPT
                      ![e].pc = "event.save",
                      ![t] = [Frame("timer.armed") EXCEPT
                                !.ip = go[e].ip, !.due = now + Timeout * Minute]]
    BY <1>5 DEF EventArms
  <2>2. t \in Channels /\ t \in Goroutines /\ t # e
    BY <1>0 DEF Channels, Goroutines
  <2>3. go[e].pc = "event.arm" /\ go[e].ip \in IPs
    BY <1>0, <1>5, Running DEF EventArms, At, Ended, StateOK
  <2>4. /\ \A h \in Goroutines : h \notin {e, t} => go'[h] = go[h]
        /\ go'[e].pc = "event.save" /\ go'[e].ip = go[e].ip
        /\ go'[t].pc = "timer.armed" /\ go'[t].ip = go[e].ip
    BY <1>0, <2>1, <2>2 DEF Frame, Frames
  <2>5. go[t].pc = "new" /\ UNCHANGED <<unblockCancel, closed>>
    BY <1>5, <2>1 DEF EventArms, Fresh, At
  <2>. QED BY <1>0, <2>1, <2>2, <2>3, <2>4, <2>5, StartsChannels DEF Closing, Deleting
<1>6. CASE EventSaves(e)
  <2>1. Calm
    BY <1>0, <1>6 DEF EventSaves, At, End, Frame, Frames, Closing, Deleting
  <2>. QED BY <1>c, <2>1
<1>. QED BY <1>1, <1>2, <1>3, <1>4, <1>5, <1>6 DEF EventSteps

(* ExecuteAction and the goroutine it starts.                              *)
LEMMA ActionChannels ==
  ASSUME StateOK, ChannelsOK, NEW g \in Callers, ActionSteps(g)
  PROVE  ChannelsOK'
<1>0. /\ g \notin Unblockers /\ g \in Goroutines /\ go \in [Goroutines -> Frames]
  BY KindsDiffer DEF StateOK, GoOK, Goroutines, Requests, Callers
<1>. DEFINE Moves == /\ \A h \in Goroutines : h # g => go'[h] = go[h]
                     /\ go'[g].pc \notin Closing \cup {"new"}
                     /\ go'[g].ip \in {go[g].ip, None}
            Calm == UNCHANGED maps /\ go[g].pc \notin Deleting /\ Moves
<1>c. Calm => ChannelsOK'
  BY <1>0, CalmStep
<1>r. Returns(g) => Moves
  BY <1>0 DEF Returns, End, Frame, Frames, Closing
<1>s. ASSUME NEW row, ActionStarts(g, row) PROVE Moves
  BY <1>0, <1>r, <1>s DEF ActionStarts, Frames, Closing
<1>p. Panics(g) /\ go[g].pc \notin Deleting => ChannelsOK'
  BY <1>0, PanicChannels
<1>1. CASE ActionSelects(g)
  <2>1. CASE Panics(g)
    BY <1>1, <1>p, <2>1 DEF ActionSelects, At, Deleting
  <2>2. CASE /\ \/ ActionStarts(g, blocks[go[g].ip])
                \/ Goto(g, "action.insert")
             /\ UNCHANGED maps
    <3>1. Goto(g, "action.insert") => Moves
      BY <1>0 DEF Goto, Frames, Closing
    <3>2. Calm
      BY <1>1, <1>s, <2>2, <3>1 DEF ActionSelects, At, Deleting
    <3>. QED BY <1>c, <3>2
  <2>. QED BY <1>1, <2>1, <2>2 DEF ActionSelects
<1>2. CASE ActionInserts(g)
  <2>1. CASE Panics(g)
    BY <1>2, <1>p, <2>1 DEF ActionInserts, At, Deleting
  <2>2. CASE ActionStarts(g, NewRecord) /\ UNCHANGED maps
    <3>1. Calm
      BY <1>2, <1>s, <2>2 DEF ActionInserts, At, Deleting
    <3>. QED BY <1>c, <3>1
  <2>. QED BY <1>2, <2>1, <2>2 DEF ActionInserts
<1>3. CASE ActionExecutes(g)
  <2>1. Executed(g) => Moves
    BY <1>0 DEF Executed, Frames, Closing
  <2>2. Calm
    BY <1>3, <1>r, <2>1 DEF ActionExecutes, At, Deleting
  <2>. QED BY <1>c, <2>2
<1>4. CASE ActionLooksUp(g)
  <2>1. go[g].ip \in IPs /\ go[g].pc = "action.lookup"
    BY <1>0, <1>4, Running DEF ActionLooksUp, At, Ended, StateOK
  <2>2. UNCHANGED maps /\ \A h \in Goroutines : h # g => go'[h] = go[h]
    BY <1>0, <1>4 DEF ActionLooksUp
  <2>3. CASE cancel[go[g].ip] # None
    BY <1>0, <1>4, <2>1, <2>2, <2>3, LookupStep DEF ActionLooksUp, Frames, Closing, Deleting
  <2>4. CASE cancel[go[g].ip] = None
    <3>1. Calm
      BY <1>0, <1>4, <2>1, <2>2, <2>4 DEF ActionLooksUp, Frames, Closing, Deleting
    <3>. QED BY <1>c, <3>1
  <2>. QED BY <2>3, <2>4
<1>5. CASE ActionCloses(g)
  BY <1>0, <1>5, CloseChannels DEF ActionCloses, At, Deleting, TimerClosing
<1>6. CASE ActionDeletes(g)
  <2>1. go[g].ip \in IPs /\ go[g].pc = "action.delete"
    BY <1>0, <1>6, Running DEF ActionDeletes, At, Ended, StateOK
  <2>2. Moves
    BY <1>0, <1>6 DEF ActionDeletes, Goto, Frames, Closing
  <2>. QED BY <1>0, <1>6, <2>1, <2>2, DeletesTimerChannels DEF ActionDeletes
<1>7. CASE ActionSpawns(g)
  <2>1. PICK u \in Unblockers :
          /\ Fresh(u, Unblockers)
          /\ unblockCancel' = [unblockCancel EXCEPT ![go[g].ip] = u]
          /\ go' = [go EXCEPT
                      ![g].pc = "action.save",
                      ![u] = [Frame("unblocker.waiting") EXCEPT
                                !.ip = go[g].ip, !.rec = go[g].arec]]
    BY <1>7 DEF ActionSpawns
  <2>2. u \in Channels /\ u \in Goroutines /\ u # g
    BY <1>0 DEF Channels, Goroutines
  <2>3. go[g].pc = "action.spawn" /\ go[g].ip \in IPs
    BY <1>0, <1>7, Running DEF ActionSpawns, At, Ended, StateOK
  <2>4. /\ \A h \in Goroutines : h \notin {g, u} => go'[h] = go[h]
        /\ go'[g].pc = "action.save" /\ go'[g].ip = go[g].ip
        /\ go'[u].pc = "unblocker.waiting" /\ go'[u].ip = go[g].ip
    BY <1>0, <2>1, <2>2 DEF Frame, Frames
  <2>5. go[u].pc = "new" /\ UNCHANGED <<cancel, closed>>
    BY <1>7, <2>1 DEF ActionSpawns, Fresh, At
  <2>. QED BY <1>0, <2>1, <2>2, <2>3, <2>4, <2>5, StartsChannels DEF Closing, Deleting
<1>8. CASE ActionSaves(g)
  <2>1. Calm
    BY <1>8, <1>r DEF ActionSaves, At, Deleting
  <2>. QED BY <1>c, <2>1
<1>. QED BY <1>1, <1>2, <1>3, <1>4, <1>5, <1>6, <1>7, <1>8 DEF ActionSteps

(* The notification timer.                                                 *)
LEMMA TimerChannels ==
  ASSUME StateOK, ChannelsOK, NEW t \in Timers, TimerSteps(t)
  PROVE  ChannelsOK'
<1>0. t \in Goroutines /\ go \in [Goroutines -> Frames]
  BY DEF StateOK, GoOK, Goroutines
<1>. DEFINE Moves == /\ \A h \in Goroutines : h # t => go'[h] = go[h]
                     /\ go'[t].pc \notin Closing \cup {"new"}
                     /\ go'[t].ip \in {go[t].ip, None}
            Calm == UNCHANGED maps /\ go[t].pc \notin Deleting /\ Moves
<1>c. Calm => ChannelsOK'
  BY <1>0, CalmStep
<1>1. CASE TimerFires(t)
  <2>1. Calm
    BY <1>0, <1>1 DEF TimerFires, At, Goto, End, Frame, Frames, Closing, Deleting
  <2>. QED BY <1>c, <2>1
<1>2. CASE TimerSelects(t)
  <2>1. CASE Panics(t)
    BY <1>0, <1>2, <2>1, PanicChannels DEF TimerSelects, At, Deleting
  <2>2. CASE /\ Goto(t, IF blocks[go[t].ip].actionTaken THEN "timer.delete"
                                                        ELSE "action.select")
             /\ UNCHANGED maps
    <3>1. Calm
      BY <1>0, <1>2, <2>2 DEF TimerSelects, At, Goto, Frames, Closing, Deleting
    <3>. QED BY <1>c, <3>1
  <2>. QED BY <1>2, <2>1, <2>2 DEF TimerSelects
<1>3. CASE TimerUpdates(t)
  <2>1. Calm
    BY <1>0, <1>3 DEF TimerUpdates, At, Goto, Frames, Closing, Deleting
  <2>. QED BY <1>c, <2>1
<1>4. CASE TimerDeletes(t)
  <2>1. go[t].ip \in IPs /\ go[t].pc = "timer.delete"
    BY <1>0, <1>4, Running DEF TimerDeletes, At, Ended, StateOK
  <2>2. Moves
    BY <1>0, <1>4 DEF TimerDeletes, End, Frame, Closing
  <2>. QED BY <1>0, <1>4, <2>1, <2>2, DeletesTimerChannels DEF TimerDeletes
<1>. QED BY <1>1, <1>2, <1>3, <1>4 DEF TimerSteps

(* scheduleUnblock.                                                        *)
LEMMA UnblockerChannels ==
  ASSUME StateOK, ChannelsOK, NEW u \in Unblockers, UnblockerSteps(u)
  PROVE  ChannelsOK'
<1>0. u \in Goroutines /\ go \in [Goroutines -> Frames]
  BY DEF StateOK, GoOK, Goroutines
<1>. DEFINE Moves == /\ \A h \in Goroutines : h # u => go'[h] = go[h]
                     /\ go'[u].pc \notin Closing \cup {"new"}
                     /\ go'[u].ip \in {go[u].ip, None}
            Calm == UNCHANGED maps /\ go[u].pc \notin Deleting /\ Moves
<1>c. Calm => ChannelsOK'
  BY <1>0, CalmStep
<1>1. CASE UnblockerWakes(u) \/ UnblockerUnblocks(u) \/ UnblockerSaves(u)
  <2>1. Calm
    BY <1>0, <1>1 DEF UnblockerWakes, UnblockerUnblocks, UnblockerSaves, At, Goto, Frames,
                      Closing, Deleting
  <2>. QED BY <1>c, <2>1
<1>2. CASE UnblockerDeletes(u)
  <2>1. go[u].ip \in IPs /\ go[u].pc = "unblocker.delete"
    BY <1>0, <1>2, Running DEF UnblockerDeletes, At, Ended, StateOK
  <2>2. Moves
    BY <1>0, <1>2 DEF UnblockerDeletes, End, Frame, Closing
  <2>. QED BY <1>0, <1>2, <2>1, <2>2, DeletesUnblockChannels DEF UnblockerDeletes
<1>. QED BY <1>1, <1>2 DEF UnblockerSteps

(* handleSlackCallback.                                                    *)
LEMMA PressChannels ==
  ASSUME StateOK, ChannelsOK, NEW p \in Presses, PressArrives(p)
  PROVE  ChannelsOK'
<1>0. p \in Goroutines /\ p \notin Channels /\ go \in [Goroutines -> Frames]
  BY RequestsAreNoChannels DEF StateOK, GoOK, Goroutines, Requests
<1>a. go[p].pc = "new"
  BY DEF PressArrives, Arrives, Fresh, At
<1>1. /\ \A h \in Goroutines : h # p => go'[h] = go[h]
      /\ go'[p].pc \in {"done", "unparsed", "action.select"}
  <2>1. CASE End(p, "done") \/ End(p, "unparsed")
    BY <1>0, <2>1, EndStarts
  <2>2. ASSUME NEW ip, NEW a,
               go' = [go EXCEPT ![p].ip = ip, ![p].action = a, ![p].pc = "action.select"]
        PROVE  /\ \A h \in Goroutines : h # p => go'[h] = go[h]
               /\ go'[p].pc = "action.select"
    <3>. DEFINE f == go[p]
    <3>1. DOMAIN f = {"pc", "ip", "rec", "arec", "chan", "due", "action"}
      BY <1>0 DEF Frames
    <3>2. go' = [go EXCEPT ![p] =
                   [[[f EXCEPT !.ip = ip] EXCEPT !.action = a] EXCEPT !.pc = "action.select"]]
      BY <2>2
    <3>. HIDE DEF f
    <3>. QED BY <1>0, <3>1, <3>2
  <2>. QED BY <2>1, <2>2 DEF PressArrives
<1>2. UNCHANGED maps
  BY DEF PressArrives
<1>. QED BY <1>0, <1>a, <1>1, <1>2, CalmStep DEF Closing, Deleting

(* ManualUnblock.                                                          *)
LEMMA ManualChannels ==
  ASSUME StateOK, ChannelsOK, NEW m \in Unblocks, ManualArrives(m) \/ ManualSteps(m)
  PROVE  ChannelsOK'
<1>0. m \in Goroutines /\ m \notin Channels /\ go \in [Goroutines -> Frames]
  BY RequestsAreNoChannels DEF StateOK, GoOK, Goroutines, Requests
<1>. DEFINE Moves == /\ \A h \in Goroutines : h # m => go'[h] = go[h]
                     /\ go'[m].pc \notin Closing \cup {"new"}
            Calm == UNCHANGED maps /\ go[m].pc \notin Deleting /\ Moves
<1>c. Calm => ChannelsOK'
  BY <1>0, CalmStep
<1>1. CASE ManualArrives(m)
  <2>0. go[m].pc = "new"
    BY <1>1 DEF ManualArrives, Arrives, Fresh, At
  <2>1. /\ \A h \in Goroutines : h # m => go'[h] = go[h]
        /\ go'[m].pc \in {"done", "manual.select"}
    <3>1. CASE End(m, "done")
      BY <1>0, <3>1, EndStarts
    <3>2. ASSUME NEW ip, go' = [go EXCEPT ![m].ip = ip, ![m].pc = "manual.select"]
          PROVE  /\ \A h \in Goroutines : h # m => go'[h] = go[h]
                 /\ go'[m].pc = "manual.select"
      BY <1>0, <3>2, PlainStep
    <3>. QED BY <1>1, <3>1, <3>2 DEF ManualArrives
  <2>2. Calm
    BY <1>1, <2>0, <2>1 DEF ManualArrives, Closing, Deleting
  <2>. QED BY <1>c, <2>2
<1>2. CASE ManualSelects(m) \/ ManualInserts(m)
  <2>1. Calm
    BY <1>0, <1>2 DEF ManualSelects, ManualInserts, ManualStarts, At, Goto, End, Frame,
                      Frames, Closing, Deleting
  <2>. QED BY <1>c, <2>1
<1>3. ASSUME NEW map, map = cancel \/ map = unblockCancel, NEW found, NEW missing,
             LooksUp(m, map, found, missing), UNCHANGED maps, go[m].ip \in IPs,
             go[m].pc \notin Deleting \cup Closing, found # "new",
             missing \notin Closing \cup {"new"}
      PROVE  ChannelsOK'
  <2>1. \A h \in Goroutines : h # m => go'[h] = go[h]
    BY <1>0, <1>3 DEF LooksUp
  <2>2. CASE map[go[m].ip] # None
    <3>1. go'[m].ip = go[m].ip /\ go'[m].chan = map[go[m].ip] /\ go'[m].pc = found
      BY <1>0, <1>3, <2>2 DEF LooksUp, Frames
    <3>. QED BY <1>0, <1>3, <2>1, <2>2, <3>1, LookupStep
  <2>3. CASE map[go[m].ip] = None
    <3>1. go'[m].pc = missing
      BY <1>0, <1>3, <2>3 DEF LooksUp, Frames
    <3>. QED BY <1>c, <1>3, <2>1, <3>1
  <2>. QED BY <2>2, <2>3
<1>4. CASE ManualLooksUpTimer(m)
  <2>1. go[m].ip \in IPs /\ go[m].pc = "manual.lookup" /\ UNCHANGED maps
    BY <1>0, <1>4, Running DEF ManualLooksUpTimer, At, Ended, StateOK
  <2>. QED BY <1>3, <1>4, <2>1 DEF ManualLooksUpTimer, Closing, Deleting
<1>5. CASE ManualLooksUpUnblock(m)
  <2>1. go[m].ip \in IPs /\ go[m].pc = "manual.lookup2" /\ UNCHANGED maps
    BY <1>0, <1>5, Running DEF ManualLooksUpUnblock, At, Ended, StateOK
  <2>. QED BY <1>3, <1>5, <2>1 DEF ManualLooksUpUnblock, Closing, Deleting
<1>6. CASE ManualClosesTimer(m)
  BY <1>0, <1>6, CloseChannels DEF ManualClosesTimer, At, Deleting, TimerClosing
<1>7. CASE ManualClosesUnblock(m)
  BY <1>0, <1>7, CloseChannels DEF ManualClosesUnblock, At, Deleting
<1>8. CASE ManualDeletesTimer(m)
  <2>1. go[m].ip \in IPs /\ go[m].pc = "manual.delete"
    BY <1>0, <1>8, Running DEF ManualDeletesTimer, At, Ended, StateOK
  <2>2. Moves /\ go'[m].ip = go[m].ip
    BY <1>0, <1>8 DEF ManualDeletesTimer, Goto, Frames, Closing
  <2>. QED BY <1>0, <1>8, <2>1, <2>2, DeletesTimerChannels DEF ManualDeletesTimer
<1>9. CASE ManualDeletesUnblock(m)
  <2>1. go[m].ip \in IPs /\ go[m].pc = "manual.delete2"
    BY <1>0, <1>9, Running DEF ManualDeletesUnblock, At, Ended, StateOK
  <2>2. Moves /\ go'[m].ip = go[m].ip
    BY <1>0, <1>9 DEF ManualDeletesUnblock, Goto, Frames, Closing
  <2>. QED BY <1>0, <1>9, <2>1, <2>2, DeletesUnblockChannels DEF ManualDeletesUnblock
<1>10. CASE ManualUnblocks(m) \/ ManualSaves(m)
  <2>1. Calm
    BY <1>0, <1>10 DEF ManualUnblocks, ManualSaves, At, End, Frame, Frames, Closing, Deleting
  <2>. QED BY <1>c, <2>1
<1>. QED BY <1>1, <1>2, <1>4, <1>5, <1>6, <1>7, <1>8, <1>9, <1>10 DEF ManualSteps

-----------------------------------------------------------------------------
(* The invariant and the theorem *)

(* In the first state there are no channels.                               *)
LEMMA InitChannels == Init => ChannelsOK
<1>. SUFFICES ASSUME Init PROVE ChannelsOK
  OBVIOUS
<1>1. /\ \A g \in Goroutines : go[g].pc = "new" /\ go[g].ip = None
      /\ \A ip \in IPs : cancel[ip] = None /\ unblockCancel[ip] = None
      /\ closed = {}
  BY DEF Init, Frame
<1>2. Channels \subseteq Goroutines
  BY DEF Channels, Goroutines
<1>3. BoundTo([c \in Channels |-> None])
  BY <1>1, <1>2, ManagerAssumption DEF BoundTo, Closing
<1>4. Bound
  <2>1. [c \in Channels |-> None] \in [Channels -> IPs \cup {None}]
    OBVIOUS
  <2>. QED BY <1>3, <2>1 DEF Bound
<1>5. InUse /\ ClosedChannelsLeaveMaps
  BY <1>1 DEF InUse, ClosedChannelsLeaveMaps, Closing
<1>. QED BY <1>4, <1>5 DEF ChannelsOK

(* Every step keeps the invariant.                                         *)
LEMMA NextChannels == StateOK /\ ChannelsOK /\ [Next]_vars => ChannelsOK'
<1>. SUFFICES ASSUME StateOK, ChannelsOK, [Next]_vars PROVE ChannelsOK'
  OBVIOUS
<1>1. CASE go' = go /\ UNCHANGED maps
  <2>1. \A h \in Goroutines : Kept(h)
    BY <1>1 DEF Kept
  <2>. QED BY <1>1, <2>1, KeptOK
<1>2. CASE Tick
  BY <1>1, <1>2 DEF Tick, memory
<1>3. CASE Restart \/ MapRace
  BY <1>3, StopsChannels DEF Restart, MapRace
<1>4. CASE UNCHANGED vars
  BY <1>1, <1>4 DEF vars, memory
<1>. QED BY <1>2, <1>3, <1>4, EventChannels, PressChannels, ManualChannels, TimerChannels,
            UnblockerChannels, ActionChannels DEF Next, Callers

(* The invariant.                                                          *)
LEMMA ChannelsInvariant == Spec => []ChannelsOK
BY InitChannels, NextChannels, StateInvariant, PTL DEF Spec

(* In every interleaving, with any failures, a closed channel is in a map  *)
(* only while the goroutine that closed it is about to delete the entry.   *)
THEOREM ClosedChannelsAreDeleted == Spec => []ClosedChannelsLeaveMaps
<1>1. ChannelsOK => ClosedChannelsLeaveMaps
  BY DEF ChannelsOK
<1>. QED BY <1>1, ChannelsInvariant, PTL

=============================================================================
