-------------------------- MODULE KeepAliveProofs --------------------------
(***************************************************************************)
(* For any interval, count, reply lag and channels: whom the keep-alive    *)
(* drops, when, and after which probe; for the clock the channels and      *)
(* their forwarders matter only through NoteActivity, which they call when *)
(* they like.  Last, that the set of open channels is exact.               *)
(***************************************************************************)
EXTENDS ConnKeepAlive, SequenceTheorems, TLAPS

(* What the arguments below are about; the other variables do not steer it.*)
clock == <<kaVars, loop, inFlight, probe, net, muxUp, done, peer, lag, wedged>>

(* The order in which a connection goes down; the probes' semaphore.       *)
GoesDownInOrder ==
  /\ net = "up" => muxUp
  /\ muxUp => ~done
  /\ kaClosed => done
  /\ ~kaClosed => ticking
  /\ ClosedTickerIsSilent
  /\ loop = "returned" => net = "closed"
  /\ inFlight <=> probe # "none"

(* Ticks come at multiples of the interval after the last activity, and    *)
(* none of them is passed over.                                            *)
TicksInTime ==
  net = "up" =>
    /\ \E k \in Nat : age + timer = k * Interval
    /\ \/ age + timer <= Deadline + Interval
       \/ age = Deadline + Interval /\ (tick \/ loop = "ticked")

(* Until the first tick after an activity, and from then until it is taken.*)
BeforeFirstTick == age + timer = Interval
AtFirstTick     == age = Interval /\ timer = Interval /\ (tick \/ loop = "ticked")

(* With no probe out, at most one interval has passed since the peer was   *)
(* last heard of.                                                          *)
Out == probe \in {"onChannel", "onGlobal", "replied"}

ProbedByThen ==
  Interval < Deadline /\ net = "up" /\ ~Out =>
    /\ \/ BeforeFirstTick
       \/ AtFirstTick
       \/ age = Interval /\ timer = Interval /\ probe \in {"started", "picked"}
    /\ probe = "releasing" => age = 0

(* How long ago a prompt peer that is not blocked by a handler was heard   *)
(* of, at each stage of a probe.                                           *)
HeardByThen ==
  net = "up" /\ peer = "prompt" /\ ~wedged =>
    /\ probe = "none" => BeforeFirstTick \/ AtFirstTick
    /\ probe \in {"started", "picked"} => age <= Interval
    /\ probe = "onChannel" => age <= Interval + lag
    /\ probe = "onGlobal" => age <= Interval + ReplyLag + lag
    /\ probe = "replied" => age <= Interval + 2 * ReplyLag
    /\ probe = "releasing" => age = 0 /\ timer = Interval

ClockInv == ClockTypes /\ GoesDownInOrder /\ TicksInTime /\ ProbedByThen /\ HeardByThen

-----------------------------------------------------------------------------
LEMMA Sizes ==
  /\ Interval \in Nat /\ Interval >= 1 /\ CountMax \in Nat /\ CountMax >= 1
  /\ ReplyLag \in Nat
  /\ Deadline \in Nat /\ AgeMax = Deadline + Interval + 1
BY IntervalAssumption, LagAssumption DEF Deadline, AgeMax

(* Of two multiples of the interval the larger is an interval away. *)
LEMMA NextMultiple ==
  ASSUME NEW k \in Nat, NEW m \in Nat, m * Interval < k * Interval
  PROVE  m * Interval + Interval <= k * Interval
<1>1. Interval \in Nat /\ Interval >= 1  BY Sizes
<1>2. m < k
  <2>1. SUFFICES ASSUME k <= m PROVE FALSE  BY <2>1
  <2>2. PICK d \in Nat : m = k + d  BY <2>1, m - k \in Nat, m = k + (m - k)
  <2>3. m * Interval = k * Interval + d * Interval  BY <1>1, <2>2
  <2>4. d * Interval \in Nat /\ k * Interval \in Nat  BY <1>1
  <2>5. QED  BY <2>3, <2>4
<1>3. PICK d \in Nat : k = m + 1 + d  BY <1>2, k - m - 1 \in Nat, k = m + 1 + (k - m - 1)
<1>4. k * Interval = m * Interval + Interval + d * Interval  BY <1>1, <1>3
<1>5. d * Interval \in Nat /\ m * Interval \in Nat  BY <1>1
<1>6. QED  BY <1>1, <1>4, <1>5

(* Handlers, the other steps of channels and forwarders and the rest of    *)
(* the mux do not touch the clock, ...                                     *)
Aside ==
  \/ \E c \in Channel :
       \/ AcceptChannel(c) \/ HandlerTakes(c) \/ HandlerCloses(c)
       \/ AddChannel(c) \/ ForwarderSends(c) \/ ForwarderGivesUp(c)
       \/ ForwarderDrains(c) \/ ForwarderEnds(c) \/ MuxReadsClose(c)
  \/ \E c \in Channel \cup {Global} : MuxReadsRequest(c)
  \/ RequestHandled \/ MuxUnblocks \/ NetError

LEMMA AsideLeavesClock == Aside => UNCHANGED clock
BY DEF Aside, AcceptChannel, HandlerTakes, HandlerCloses, AddChannel, ForwarderSends,
       ForwarderGivesUp, ForwarderDrains, ForwarderEnds, MuxReadsRequest, MuxReadsClose,
       RequestHandled, MuxUnblocks, NetError, clock, kaVars, loopVars, fwdVars, sshVars, peerVars

(* ... and requests and replies only note activity.                        *)
Notes ==
  /\ \/ kaClosed /\ UNCHANGED <<age, timer, tick, ticking>>
     \/ ~kaClosed /\ age' = 0 /\ timer' = Interval /\ tick' = FALSE /\ ticking' = TRUE
  /\ UNCHANGED <<kaClosed, loop, inFlight, net, muxUp, done, peer, lag, wedged>>

LEMMA Noting ==
  ASSUME NoteActivity,
         UNCHANGED <<loop, inFlight, net, muxUp, done, peer, lag, wedged>>
  PROVE  Notes
BY DEF NoteActivity, Notes

(* A request noted by a forwarder or the global loop leaves the probe      *)
(* where it is; a reply takes it on.                                       *)
LEMMA RequestsNote ==
  ASSUME HandleRequest \/ \E c \in Channel : ForwarderReceives(c)
  PROVE  Notes /\ UNCHANGED probe
BY Noting DEF ForwarderReceives, HandleRequest, loopVars, peerVars

LEMMA RepliesNote ==
  ASSUME ProbeResets
  PROVE  Notes /\ probe = "replied" /\ probe' = "releasing"
BY Noting DEF ProbeResets, sshVars, peerVars

(* A probe takes a channel or goes out as a global request.                *)
Picks ==
  /\ probe = "started"
  /\ probe' \in {"onGlobal", "picked"} \/ (net = "closed" /\ probe' = "releasing")
  /\ lag' = 0
  /\ UNCHANGED <<kaVars, loop, inFlight, net, muxUp, done, peer, wedged>>

LEMMA Picking == ProbePicks => Picks
BY DEF ProbePicks, SendsGlobal, Picks, sshVars

(* The steps that do.                                                      *)
ClockStep ==
  \/ UNCHANGED clock
  \/ Notes /\ UNCHANGED probe
  \/ Notes /\ probe = "replied" /\ probe' = "releasing"
  \/ LoopStep
  \/ Picks \/ ProbeSends \/ ProbeFallsBack \/ ProbeFails \/ ProbeReleases
  \/ MuxReadsReply \/ MuxExits \/ HandleConnSignals \/ KeepAliveClose
  \/ PeerStalls \/ NetCloses \/ TimeStep

(* Every step is one of those the argument distinguishes.                  *)
LEMMA NextIsClockStep == [Next]_vars => ClockStep
<1> SUFFICES ASSUME [Next]_vars PROVE ClockStep  OBVIOUS
<1>1. CASE Aside  BY <1>1, AsideLeavesClock DEF ClockStep
<1>2. CASE HandleRequest \/ \E c \in Channel : ForwarderReceives(c)
  BY <1>2, RequestsNote DEF ClockStep
<1>3. CASE ProbeStep  BY <1>3, RepliesNote, Picking DEF ProbeStep, ClockStep
<1>4. CASE UNCHANGED vars
  BY <1>4 DEF vars, ClockStep, clock, kaVars, loopVars, sshVars, peerVars
<1>5. QED
  BY <1>1, <1>2, <1>3, <1>4 DEF Next, ForwarderStep, HandlerStep, ConnStep, PeerStep, Aside,
     ClockStep

-----------------------------------------------------------------------------
(* Each part of ClockInv is preserved, step by step: types, ...            *)
LEMMA TypesKept ==
  ASSUME ClockTypes, ClockStep
  PROVE  ClockTypes'
<1> USE Sizes DEF ClockTypes, LoopPC, ProbePC, kaVars, 
           loopVars, peerVars, sshVars
<1>1. CASE UNCHANGED clock  BY <1>1 DEF clock
<1>2. CASE Notes /\ UNCHANGED probe
  <2>1. CASE kaClosed  BY <1>2, <2>1 DEF Notes
  <2>2. CASE ~kaClosed  BY <1>2, <2>2, 0 \in 0..AgeMax, Interval \in 1..Interval DEF Notes
  <2>3. QED  BY <2>1, <2>2
<1>3. CASE Notes /\ probe = "replied" /\ probe' = "releasing"
  <2>1. CASE kaClosed  BY <1>3, <2>1 DEF Notes
  <2>2. CASE ~kaClosed  BY <1>3, <2>2, 0 \in 0..AgeMax, Interval \in 1..Interval DEF Notes
  <2>3. QED  BY <2>1, <2>2
<1>4. CASE LoopTakesTick  BY <1>4 DEF LoopTakesTick
<1>5. CASE LoopTimesOut  BY <1>5 DEF LoopTimesOut
<1>6. CASE LoopProbes  BY <1>6 DEF LoopProbes
<1>7. CASE LoopStops  BY <1>7 DEF LoopStops
<1>8. CASE Picks  BY <1>8 DEF Picks
<1>9. CASE ProbeSends  BY <1>9 DEF ProbeSends
<1>10. CASE ProbeFallsBack  BY <1>10 DEF ProbeFallsBack, SendsGlobal
<1>11. CASE ProbeFails  BY <1>11 DEF ProbeFails
<1>12. CASE ProbeReleases  BY <1>12 DEF ProbeReleases
<1>13. CASE MuxReadsReply  BY <1>13 DEF MuxReadsReply
<1>14. CASE MuxExits  BY <1>14 DEF MuxExits
<1>15. CASE HandleConnSignals  BY <1>15 DEF HandleConnSignals
<1>16. CASE KeepAliveClose  BY <1>16 DEF KeepAliveClose
<1>17. CASE PeerStalls  BY <1>17 DEF PeerStalls
<1>18. CASE NetCloses  BY <1>18 DEF NetCloses
<1>19. CASE TimeStep  BY <1>19 DEF TimeStep
<1>20. QED
  BY <1>1, <1>2, <1>3, <1>4, <1>5, <1>6, <1>7, <1>8, <1>9, <1>10, <1>11, <1>12,
     <1>13, <1>14, <1>15, <1>16, <1>17, <1>18, <1>19 DEF ClockStep, LoopStep

(* ... the order of going down, ...                                        *)
LEMMA OrderKept ==
  ASSUME ClockTypes, GoesDownInOrder, ClockStep
  PROVE  GoesDownInOrder'
<1> USE DEF ClockTypes, GoesDownInOrder, ClosedTickerIsSilent, ProbePC, kaVars, 
           loopVars, peerVars, sshVars
<1>1. CASE UNCHANGED clock  BY <1>1 DEF clock
<1>2. CASE Notes /\ UNCHANGED probe  BY <1>2 DEF Notes
<1>3. CASE Notes /\ probe = "replied" /\ probe' = "releasing"  BY <1>3 DEF Notes
<1>4. CASE LoopTakesTick  BY <1>4 DEF LoopTakesTick
<1>5. CASE LoopTimesOut  BY <1>5 DEF LoopTimesOut
<1>6. CASE LoopProbes  BY <1>6 DEF LoopProbes
<1>7. CASE LoopStops  BY <1>7 DEF LoopStops
<1>8. CASE Picks  BY <1>8 DEF Picks
<1>9. CASE ProbeSends  BY <1>9 DEF ProbeSends
<1>10. CASE ProbeFallsBack  BY <1>10 DEF ProbeFallsBack, SendsGlobal, ChannelProbeFails
<1>11. CASE ProbeFails  BY <1>11 DEF ProbeFails
<1>12. CASE ProbeReleases  BY <1>12 DEF ProbeReleases
<1>13. CASE MuxReadsReply  BY <1>13 DEF MuxReadsReply
<1>14. CASE MuxExits  BY <1>14 DEF MuxExits
<1>15. CASE HandleConnSignals  BY <1>15 DEF HandleConnSignals
<1>16. CASE KeepAliveClose  BY <1>16 DEF KeepAliveClose
<1>17. CASE PeerStalls  BY <1>17 DEF PeerStalls
<1>18. CASE NetCloses  BY <1>18 DEF NetCloses
<1>19. CASE TimeStep  BY <1>19 DEF TimeStep
<1>20. QED
  BY <1>1, <1>2, <1>3, <1>4, <1>5, <1>6, <1>7, <1>8, <1>9, <1>10, <1>11, <1>12,
     <1>13, <1>14, <1>15, <1>16, <1>17, <1>18, <1>19 DEF ClockStep, LoopStep

(* ... the probe before the deadline, ...                                  *)
LEMMA ProbedKept ==
  ASSUME ClockTypes, GoesDownInOrder, ProbedByThen, ClockStep
  PROVE  ProbedByThen'
<1> USE Sizes DEF ClockTypes, GoesDownInOrder, ProbedByThen, Out, BeforeFirstTick,
           AtFirstTick, MayBeUp, MayNotBeUp, LoopPC, ProbePC, kaVars, 
           loopVars, peerVars, sshVars
<1>1. CASE UNCHANGED clock  BY <1>1 DEF clock
<1>2. CASE Notes /\ UNCHANGED probe  BY <1>2 DEF Notes
<1>3. CASE Notes /\ probe = "replied" /\ probe' = "releasing"  BY <1>3 DEF Notes
<1>4. CASE LoopTakesTick  BY <1>4 DEF LoopTakesTick
<1>5. CASE LoopTimesOut  BY <1>5 DEF LoopTimesOut
<1>6. CASE LoopProbes  BY <1>6 DEF LoopProbes
<1>7. CASE LoopStops  BY <1>7 DEF LoopStops
<1>8. CASE Picks  BY <1>8 DEF Picks
<1>9. CASE ProbeSends  BY <1>9 DEF ProbeSends
<1>10. CASE ProbeFallsBack  BY <1>10 DEF ProbeFallsBack, SendsGlobal
<1>11. CASE ProbeFails  BY <1>11 DEF ProbeFails
<1>12. CASE ProbeReleases  BY <1>12 DEF ProbeReleases
<1>13. CASE MuxReadsReply  BY <1>13 DEF MuxReadsReply
<1>14. CASE MuxExits  BY <1>14 DEF MuxExits
<1>15. CASE HandleConnSignals  BY <1>15 DEF HandleConnSignals
<1>16. CASE KeepAliveClose  BY <1>16 DEF KeepAliveClose
<1>17. CASE PeerStalls  BY <1>17 DEF PeerStalls
<1>18. CASE NetCloses  BY <1>18 DEF NetCloses
<1>19. CASE TimeStep  BY <1>19 DEF TimeStep, Blocked
<1>20. QED
  BY <1>1, <1>2, <1>3, <1>4, <1>5, <1>6, <1>7, <1>8, <1>9, <1>10, <1>11, <1>12,
     <1>13, <1>14, <1>15, <1>16, <1>17, <1>18, <1>19 DEF ClockStep, LoopStep

(* ... the age of what was last heard at each stage of a probe, ...        *)
LEMMA HeardKept ==
  ASSUME ClockTypes, GoesDownInOrder, HeardByThen, ClockStep
  PROVE  HeardByThen'
<1> USE Sizes DEF ClockTypes, GoesDownInOrder, HeardByThen, BeforeFirstTick,
           AtFirstTick, MayBeUp, MayNotBeUp, LoopPC, ProbePC, kaVars, 
           loopVars, peerVars, sshVars
<1>1. CASE UNCHANGED clock  BY <1>1 DEF clock
<1>2. CASE Notes /\ UNCHANGED probe  BY <1>2 DEF Notes
<1>3. CASE Notes /\ probe = "replied" /\ probe' = "releasing"  BY <1>3 DEF Notes
<1>4. CASE LoopTakesTick  BY <1>4 DEF LoopTakesTick
<1>5. CASE LoopTimesOut  BY <1>5 DEF LoopTimesOut
<1>6. CASE LoopProbes  BY <1>6 DEF LoopProbes
<1>7. CASE LoopStops  BY <1>7 DEF LoopStops
<1>8. CASE Picks  BY <1>8 DEF Picks
<1>9. CASE ProbeSends  BY <1>9 DEF ProbeSends
<1>10. CASE ProbeFallsBack  BY <1>10 DEF ProbeFallsBack, SendsGlobal, ChannelProbeFails
<1>11. CASE ProbeFails  BY <1>11 DEF ProbeFails
<1>12. CASE ProbeReleases  BY <1>12 DEF ProbeReleases
<1>13. CASE MuxReadsReply  BY <1>13 DEF MuxReadsReply
<1>14. CASE MuxExits  BY <1>14 DEF MuxExits
<1>15. CASE HandleConnSignals  BY <1>15 DEF HandleConnSignals
<1>16. CASE KeepAliveClose  BY <1>16 DEF KeepAliveClose
<1>17. CASE PeerStalls  BY <1>17 DEF PeerStalls
<1>18. CASE NetCloses  BY <1>18 DEF NetCloses
<1>19. CASE TimeStep  BY <1>19 DEF TimeStep, Blocked, PeerInTime, MuxReads
<1>20. QED
  BY <1>1, <1>2, <1>3, <1>4, <1>5, <1>6, <1>7, <1>8, <1>9, <1>10, <1>11, <1>12,
     <1>13, <1>14, <1>15, <1>16, <1>17, <1>18, <1>19 DEF ClockStep, LoopStep

(* ... and the ticks: time stops for a tick that is to be taken.           *)
LEMMA TicksKept ==
  ASSUME ClockTypes, GoesDownInOrder, TicksInTime, ClockStep
  PROVE  TicksInTime'
<1> USE Sizes DEF ClockTypes, GoesDownInOrder, LoopPC, kaVars, loopVars, peerVars,
                 sshVars
<1>1. ASSUME age' = 0, timer' = Interval PROVE TicksInTime'
  <2>1. age' + timer' = 1 * Interval  BY <1>1
  <2>2. age' + timer' <= Deadline + Interval  BY <1>1
  <2>3. QED  BY <2>1, <2>2 DEF TicksInTime
<1>2. ASSUME UNCHANGED <<age, timer>>, net' = "closed" \/ net' = net,
             tick => tick' \/ loop' = "ticked" \/ net' = "closed",
             loop = "ticked" => loop' = "ticked" \/ net' = "closed" \/ age <= Deadline
      PROVE  TicksInTime'
  BY <1>2 DEF TicksInTime
<1>3. CASE UNCHANGED clock  BY <1>2, <1>3 DEF clock
<1>4. CASE Notes  BY <1>1, <1>2, <1>4 DEF Notes
<1>5. CASE LoopTakesTick  BY <1>2, <1>5 DEF LoopTakesTick
<1>6. CASE LoopTimesOut  BY <1>6 DEF LoopTimesOut, TicksInTime
<1>7. CASE LoopProbes  BY <1>2, <1>7 DEF LoopProbes, MayNotBeUp
<1>8. CASE LoopStops  BY <1>2, <1>8 DEF LoopStops
<1>9. CASE Picks  BY <1>2, <1>9 DEF Picks
<1>10. CASE ProbeSends  BY <1>2, <1>10 DEF ProbeSends
<1>11. CASE ProbeFallsBack  BY <1>2, <1>11 DEF ProbeFallsBack
<1>12. CASE ProbeFails  BY <1>2, <1>12 DEF ProbeFails
<1>13. CASE ProbeReleases  BY <1>2, <1>13 DEF ProbeReleases
<1>14. CASE MuxReadsReply  BY <1>2, <1>14 DEF MuxReadsReply
<1>15. CASE MuxExits  BY <1>2, <1>15 DEF MuxExits
<1>16. CASE HandleConnSignals  BY <1>2, <1>16 DEF HandleConnSignals
<1>17. CASE KeepAliveClose  BY <1>17 DEF KeepAliveClose, TicksInTime
<1>18. CASE PeerStalls  BY <1>2, <1>18 DEF PeerStalls
<1>19. CASE NetCloses  BY <1>19 DEF NetCloses, TicksInTime
<1>20. CASE TimeStep
  <2> SUFFICES ASSUME net' = "up" PROVE TicksInTime'  BY DEF TicksInTime
  <2>1. net = "up" /\ ticking /\ ~tick /\ loop = "select"
    BY <1>20 DEF TimeStep, Blocked
  <2>2. PICK k \in Nat : age + timer = k * Interval  BY <2>1 DEF TicksInTime
  <2>3. age + timer <= Deadline + Interval  BY <2>1 DEF TicksInTime
  <2>4. age' = age + 1  BY <1>20, <2>3 DEF TimeStep
  <2>5. CASE timer # 1
    <3>1. age' + timer' = age + timer  BY <1>20, <2>1, <2>4, <2>5 DEF TimeStep
    <3>2. QED  BY <2>2, <2>3, <3>1 DEF TicksInTime
  <2>6. CASE timer = 1
    <3>1. timer' = Interval /\ tick'  BY <1>20, <2>1, <2>6 DEF TimeStep
    <3>2. age' = k * Interval  BY <2>2, <2>4, <2>6
    <3>3. age' + timer' = (k + 1) * Interval  BY <3>1, <3>2
    <3>4. age' <= Deadline \/ age' = Deadline + Interval
      BY <2>2, <2>3, <3>2, NextMultiple DEF Deadline
    <3>5. \/ age' + timer' <= Deadline + Interval
          \/ age' = Deadline + Interval /\ tick'
      BY <3>1, <3>2, <3>4
    <3>6. QED  BY <3>3, <3>5, k + 1 \in Nat DEF TicksInTime
  <2>7. QED  BY <2>5, <2>6
<1>21. QED
  BY <1>3, <1>4, <1>5, <1>6, <1>7, <1>8, <1>9, <1>10, <1>11, <1>12, <1>13, <1>14, <1>15,
     <1>16, <1>17, <1>18, <1>19, <1>20 DEF ClockStep, LoopStep

-----------------------------------------------------------------------------
LEMMA ClockStarts == Init => ClockInv
<1> SUFFICES ASSUME Init PROVE ClockInv  OBVIOUS
<1> USE Sizes DEF Init
<1>1. ClockTypes
  BY 0 \in 0..AgeMax, Interval \in 1..Interval, 0 \in 0..ReplyLag DEF ClockTypes, LoopPC, ProbePC
<1>2. GoesDownInOrder  BY DEF GoesDownInOrder, ClosedTickerIsSilent
<1>3. TicksInTime
  <2>1. age + timer = 1 * Interval /\ age + timer <= Deadline + Interval  OBVIOUS
  <2>2. QED  BY <2>1 DEF TicksInTime
<1>4. ProbedByThen /\ HeardByThen  BY DEF ProbedByThen, Out, HeardByThen, BeforeFirstTick
<1>5. QED  BY <1>1, <1>2, <1>3, <1>4 DEF ClockInv

LEMMA ClockKept == ClockInv /\ [Next]_vars => ClockInv'
<1> SUFFICES ASSUME ClockInv, [Next]_vars PROVE ClockInv'  OBVIOUS
<1>1. ClockStep  BY NextIsClockStep DEF ClockInv, ClockTypes
<1>2. QED  BY <1>1, TypesKept, OrderKept, TicksKept, ProbedKept, HeardKept DEF ClockInv

(* The invariant of the keep-alive (server.go 540-600, keepalive.go):      *)
(* where ticks, probes, replies and the deadline stand to each other.      *)
THEOREM ClockInvHolds == Spec => []ClockInv
BY ClockStarts, ClockKept, PTL DEF Spec

(* The channels, their buffers and forwarders keep their types as well.    *)
LEMMA ChannelsKept ==
  ASSUME ChannelTypes, [Next]_vars
  PROVE  ChannelTypes'
<1> USE CapAssumption DEF ChannelTypes, FwdPC, ChanState, kaVars, loopVars, fwdVars, sshVars,
                         peerVars
<1>1. ASSUME NEW c \in Channel, AcceptChannel(c) PROVE ChannelTypes'  BY <1>1 DEF AcceptChannel
<1>2. ASSUME NEW c \in Channel, AddChannel(c) PROVE ChannelTypes'  BY <1>2 DEF AddChannel
<1>3. ASSUME NEW c \in Channel, ForwarderReceives(c) PROVE ChannelTypes'  BY <1>3 DEF ForwarderReceives
<1>4. ASSUME NEW c \in Channel, ForwarderSends(c) PROVE ChannelTypes'  BY <1>4 DEF ForwarderSends
<1>5. ASSUME NEW c \in Channel, ForwarderGivesUp(c) PROVE ChannelTypes'  BY <1>5 DEF ForwarderGivesUp
<1>6. ASSUME NEW c \in Channel, ForwarderDrains(c) PROVE ChannelTypes'  BY <1>6 DEF ForwarderDrains
<1>7. ASSUME NEW c \in Channel, ForwarderEnds(c) PROVE ChannelTypes'  BY <1>7 DEF ForwarderEnds
<1>8. ASSUME NEW c \in Channel, HandlerTakes(c) PROVE ChannelTypes'  BY <1>8 DEF HandlerTakes
<1>9. ASSUME NEW c \in Channel, HandlerCloses(c) PROVE ChannelTypes'  BY <1>9 DEF HandlerCloses
<1>10. ASSUME NEW c \in Channel \cup {Global}, MuxReadsRequest(c) PROVE ChannelTypes'
  BY <1>10 DEF MuxReadsRequest
<1>11. ASSUME NEW c \in Channel, MuxReadsClose(c) PROVE ChannelTypes'  BY <1>11 DEF MuxReadsClose
<1>12. CASE LoopStep  BY <1>12 DEF LoopStep, LoopTakesTick, LoopTimesOut, LoopProbes, LoopStops
<1>13. CASE ProbeStep  BY <1>13 DEF ProbeStep, ProbePicks, ProbeSends, ProbeFallsBack, ProbeFails, ProbeResets,
                  ProbeReleases
<1>14. CASE MuxUnblocks  BY <1>14 DEF MuxUnblocks
<1>15. CASE MuxExits  BY <1>15 DEF MuxExits
<1>16. CASE HandleConnSignals \/ KeepAliveClose  BY <1>16 DEF HandleConnSignals, KeepAliveClose
<1>17. CASE RequestHandled \/ MuxReadsReply  BY <1>17 DEF RequestHandled, MuxReadsReply
<1>21. CASE HandleRequest
  <2>1. upstream' \in [Channel \cup {Global} -> 0..Cap]  BY <1>21 DEF HandleRequest
  <2>2. handling' \in BOOLEAN  BY <1>21 DEF HandleRequest
  <2>3. QED  BY <1>21, <2>1, <2>2 DEF HandleRequest
<1>18. CASE PeerStalls \/ NetCloses \/ NetError  BY <1>18 DEF PeerStalls, NetCloses, NetError
<1>19. CASE TimeStep  BY <1>19 DEF TimeStep
<1>20. CASE UNCHANGED vars  BY <1>20 DEF vars
<1>22. QED
  BY <1>1, <1>2, <1>3, <1>4, <1>5, <1>6, <1>7, <1>8, <1>9, <1>10, <1>11, <1>12,
     <1>13, <1>14, <1>15, <1>16, <1>17, <1>18, <1>19, <1>20, <1>21 DEF Next, ForwarderStep,
     HandlerStep, ConnStep, PeerStep

(* Every variable keeps its type, and no buffer of requests overflows.     *)
THEOREM TypeCorrect == Spec => []TypeOK
<1>1. Init => ChannelTypes
  BY CapAssumption, 0 \in 0..Cap DEF Init, ChannelTypes, FwdPC, ChanState
<1>2. ClockInv => ClockTypes  BY DEF ClockInv
<1>3. Spec => []ChannelTypes  BY <1>1, ChannelsKept, PTL DEF Spec
<1>4. QED  BY <1>2, <1>3, ClockInvHolds, PTL DEF TypeOK

(* However ticks, probes, replies and requests interleave, a silent peer   *)
(* is dropped at most one interval after the deadline (server.go 546).     *)
THEOREM SilentPeersDropped == Spec => []DetectionBound
<1>1. ClockInv => DetectionBound
  BY Sizes DEF ClockInv, ClockTypes, TicksInTime, DetectionBound
<1>2. QED  BY <1>1, ClockInvHolds, PTL

(* Nothing starts the ticker after Close (keepalive.go 61-87, 103-112).    *)
THEOREM ClosedForGood == Spec => []ClosedTickerIsSilent
<1>1. ClockInv => ClosedTickerIsSilent  BY DEF ClockInv, GoesDownInOrder
<1>2. QED  BY <1>1, ClockInvHolds, PTL

(* With a ClientAliveCountMax above 1 no connection is closed unless a     *)
(* probe is out whose reply has not been counted (server.go 546-600).      *)
THEOREM ProbedFirst ==
  ASSUME Interval < Deadline
  PROVE  Spec => NoKillWithoutProbe
<1>1. ClockInv /\ [Next]_vars => [LoopTimesOut => net = "closed" \/ Out]_vars
  <2> SUFFICES ASSUME ClockInv, LoopTimesOut, net = "up", ~Out PROVE FALSE
    BY DEF ClockInv, ClockTypes
  <2>1. age <= Interval
    BY Sizes DEF ClockInv, ClockTypes, ProbedByThen, BeforeFirstTick, AtFirstTick
  <2>2. QED  BY <2>1, Sizes DEF LoopTimesOut, MayBeUp, ClockInv, ClockTypes
<1>2. QED  BY <1>1, ClockInvHolds, PTL DEF Spec, NoKillWithoutProbe, Out

(* If the deadline leaves room for an interval and two replies (a probe    *)
(* whose channel closes is sent again), a peer that answers every probe in *)
(* time is never closed for silence, unless a handler, or a RequestHandler,*)
(* blocks the mux.                                                         *)
THEOREM PromptPeersSurvive ==
  ASSUME Interval + 2 * ReplyLag < Deadline
  PROVE  Spec => PromptPeerSurvives
<1>1. ClockInv /\ [Next]_vars =>
        [LoopTimesOut => net = "closed" \/ peer = "stalled" \/ wedged]_vars
  <2> SUFFICES ASSUME ClockInv, LoopTimesOut, net = "up", peer = "prompt", ~wedged PROVE FALSE
    BY DEF ClockInv, ClockTypes
  <2>1. age <= Interval + 2 * ReplyLag
    BY Sizes DEF ClockInv, ClockTypes, ProbePC, HeardByThen, BeforeFirstTick, AtFirstTick
  <2>2. QED  BY <2>1, Sizes DEF LoopTimesOut, MayBeUp, ClockInv, ClockTypes
<1>2. QED  BY <1>1, ClockInvHolds, PTL DEF Spec, PromptPeerSurvives

-----------------------------------------------------------------------------
(* No element twice. *)
Distinct(s) == \A i, j \in 1..Len(s) : s[i] = s[j] => i = j

(* Without its i-th element a sequence has the others, once each. *)
LEMMA RemovedAt ==
  ASSUME NEW S, NEW s \in Seq(S), NEW k \in 1..Len(s), Distinct(s)
  PROVE  LET t == RemoveAt(s, k)
         IN  /\ t \in Seq(S) /\ Distinct(t)
             /\ \A x : Contains(t, x) <=> Contains(s, x) /\ x # s[k]
<1> DEFINE a == SubSeq(s, 1, k - 1)
           b == SubSeq(s, k + 1, Len(s))
           t == a \o b
           at(i) == IF i < k THEN i ELSE i + 1
<1>1. Len(s) \in Nat /\ k \in Nat /\ \A i \in 1..Len(s) : s[i] \in S  OBVIOUS
<1>2. /\ a \in Seq(S) /\ Len(a) = k - 1
      /\ \A i \in 1..(k - 1) : a[i] = s[i]
  BY <1>1, SubSeqProperties
<1>3. /\ b \in Seq(S) /\ Len(b) = Len(s) - k
      /\ \A i \in 1..(Len(s) - k) : b[i] = s[k + i]
  BY <1>1, SubSeqProperties
<1> HIDE DEF a, b
<1>4. /\ t \in Seq(S) /\ Len(t) = Len(a) + Len(b)
      /\ \A i \in 1..(Len(a) + Len(b)) : t[i] = IF i <= Len(a) THEN a[i] ELSE b[i - Len(a)]
  BY <1>2, <1>3, ConcatProperties
<1> HIDE DEF t
<1>5. Len(t) = Len(s) - 1  BY <1>1, <1>2, <1>3, <1>4
<1>6. ASSUME NEW i \in 1..Len(t) PROVE at(i) \in 1..Len(s) /\ at(i) # k /\ t[i] = s[at(i)]
  <2>1. CASE i < k  BY <2>1, <1>1, <1>2, <1>3, <1>4, <1>5
  <2>2. CASE ~(i < k)
    <3>1. i - Len(a) \in 1..(Len(s) - k)  BY <2>2, <1>1, <1>2, <1>5
    <3>2. t[i] = b[i - Len(a)]  BY <2>2, <1>1, <1>2, <1>3, <1>4, <1>5
    <3>3. b[i - Len(a)] = s[k + (i - Len(a))]  BY <3>1, <1>3
    <3>4. k + (i - Len(a)) = i + 1  BY <1>1, <1>2
    <3>5. QED  BY <2>2, <3>2, <3>3, <3>4, <1>1, <1>5
  <2>3. QED  BY <2>1, <2>2
<1>7. ASSUME NEW j \in 1..Len(s), j # k PROVE \E i \in 1..Len(t) : at(i) = j
  <2>1. CASE j < k  BY <2>1, <1>1, <1>5
  <2>2. CASE j > k  BY <2>2, <1>1, <1>5, j - 1 \in 1..Len(t), at(j - 1) = j
  <2>3. QED  BY <2>1, <2>2, <1>1, <1>7
<1>8. Distinct(t)
  <2> SUFFICES ASSUME NEW i \in 1..Len(t), NEW j \in 1..Len(t), t[i] = t[j] PROVE i = j
    BY DEF Distinct
  <2>1. at(i) = at(j)  BY <1>6 DEF Distinct
  <2>2. QED  BY <2>1, <1>1, <1>5
<1>9. ASSUME NEW x PROVE Contains(t, x) <=> Contains(s, x) /\ x # s[k]
  <2>1. ASSUME Contains(t, x) PROVE Contains(s, x) /\ x # s[k]
    <3>1. PICK i \in 1..Len(t) : t[i] = x  BY <2>1 DEF Contains
    <3>2. at(i) \in 1..Len(s) /\ at(i) # k /\ s[at(i)] = x  BY <1>6, <3>1
    <3> HIDE DEF at
    <3>3. QED  BY <3>2 DEF Contains, Distinct
  <2>2. ASSUME Contains(s, x), x # s[k] PROVE Contains(t, x)
    <3>1. PICK j \in 1..Len(s) : s[j] = x  BY <2>2 DEF Contains
    <3>2. PICK i \in 1..Len(t) : at(i) = j  BY <1>7, <2>2, <3>1
    <3>3. QED  BY <1>6, <3>1, <3>2 DEF Contains
  <2>3. QED  BY <2>1, <2>2
<1>10. RemoveAt(s, k) = t  BY DEF RemoveAt, t, a, b
<1>11. QED  BY <1>4, <1>8, <1>9, <1>10

(* Removing the first occurrence of a channel removes the channel, and     *)
(* nothing else: each is in the set once (server.go 43-52).                *)
LEMMA RemovedOnce ==
  ASSUME NEW S, NEW s \in Seq(S), NEW e, Distinct(s)
  PROVE  LET t == RemoveFirst(s, e)
         IN  /\ t \in Seq(S) /\ Distinct(t)
             /\ \A x : Contains(t, x) <=> Contains(s, x) /\ x # e
<1>1. CASE Contains(s, e)
  <2>1. PICK k \in 1..Len(s) : s[k] = e  BY <1>1 DEF Contains
  <2> DEFINE I == {i \in 1..Len(s) : s[i] = e}
  <2>2. I = {k}  BY <2>1 DEF Distinct
  <2>3. Min(I) = k
    <3>1. k <= k  OBVIOUS
    <3>2. QED  BY <2>2, <3>1 DEF Min
  <2>4. SelectInSeq(s, LAMBDA v : v = e) = k  BY <2>2, <2>3 DEF SelectInSeq
  <2>5. RemoveFirst(s, e) = RemoveAt(s, k)  BY <2>1, <2>4 DEF RemoveFirst
  <2>6. QED  BY <2>1, <2>5, RemovedAt
<1>2. CASE ~Contains(s, e)
  <2>1. RemoveFirst(s, e) = s  BY <1>2 DEF RemoveFirst, Contains
  <2>2. QED  BY <1>2, <2>1
<1>3. QED  BY <1>1, <1>2

LEMMA AppendedOnce ==
  ASSUME NEW S, NEW s \in Seq(S), NEW e \in S, Distinct(s), ~Contains(s, e)
  PROVE  LET t == Append(s, e)
         IN  /\ t \in Seq(S) /\ Distinct(t)
             /\ \A x : Contains(t, x) <=> Contains(s, x) \/ x = e
<1> DEFINE t == Append(s, e)
<1>1. /\ t \in Seq(S) /\ Len(t) = Len(s) + 1 /\ t[Len(s) + 1] = e /\ Len(s) \in Nat
      /\ \A i \in 1..Len(s) : t[i] = s[i]
  BY AppendProperties
<1> HIDE DEF t
<1>2. \A i \in 1..Len(t) : i \in 1..Len(s) \/ i = Len(s) + 1  BY <1>1
<1>3. \A i \in 1..Len(s) : s[i] # e  BY DEF Contains
<1>4. Distinct(t)  BY <1>1, <1>2, <1>3 DEF Distinct
<1>5. \A x : Contains(t, x) <=> Contains(s, x) \/ x = e  BY <1>1, <1>2 DEF Contains
<1>6. QED  BY <1>1, <1>4, <1>5 DEF t

(* What OpenChansExact needs besides: a channel has a forwarder from the   *)
(* moment it is accepted, and the mux leaves no channel open behind.       *)
ChannelsInOrder ==
  /\ OpenChansExact
  /\ \A c \in Channel : chan[c] = "none" <=> fwd[c] = "none"
  /\ ~muxUp => \A c \in Channel : chan[c] \in {"none", "closed"}

(* What ChannelsInOrder is about. *)
setVars == <<openChans, probeChan, fwd, chan, net, muxUp>>

(* The steps of a channel, ... *)
LEMMA ChannelKeepsSet ==
  ASSUME ChannelTypes, ChannelsInOrder, NEW c \in Channel,
         ForwarderStep(c) \/ HandlerStep(c) \/ MuxReadsClose(c)
  PROVE  ChannelsInOrder'
<1> USE DEF ChannelTypes, ChannelsInOrder, OpenChansExact, FwdPC, ChanState, loopVars, fwdVars,
            sshVars
<1>1. CASE AcceptChannel(c)
  BY <1>1 DEF AcceptChannel
<1>2. CASE AddChannel(c)
  <2>1. ~Contains(openChans, c) /\ openChans' = Append(openChans, c)  BY <1>2 DEF AddChannel
  <2>2. openChans \in Seq(Channel) /\ Distinct(openChans)  BY DEF Distinct
  <2>3. /\ openChans' \in Seq(Channel) /\ Distinct(openChans')
        /\ \A d : Contains(openChans', d) <=> Contains(openChans, d) \/ d = c
    BY <2>1, <2>2, AppendedOnce
  <2>4. QED  BY <1>2, <2>3 DEF AddChannel, Distinct
<1>3. CASE ForwarderReceives(c)  BY <1>3 DEF ForwarderReceives
<1>4. CASE ForwarderSends(c)  BY <1>4 DEF ForwarderSends
<1>5. CASE ForwarderGivesUp(c)  BY <1>5 DEF ForwarderGivesUp
<1>6. CASE ForwarderDrains(c)  BY <1>6 DEF ForwarderDrains
<1>7. CASE ForwarderEnds(c)
  <2>1. openChans \in Seq(Channel) /\ Distinct(openChans)  BY DEF Distinct
  <2>2. openChans' = RemoveFirst(openChans, c)  BY <1>7 DEF ForwarderEnds
  <2>3. /\ openChans' \in Seq(Channel) /\ Distinct(openChans')
        /\ \A d : Contains(openChans', d) <=> Contains(openChans, d) /\ d # c
    BY <2>1, <2>2, RemovedOnce
  <2>4. QED  BY <1>7, <2>3 DEF ForwarderEnds, Distinct
<1>8. CASE HandlerTakes(c)  BY <1>8 DEF HandlerTakes
<1>9. CASE HandlerCloses(c)  BY <1>9 DEF HandlerCloses
<1>10. CASE MuxReadsClose(c)  BY <1>10 DEF MuxReadsClose
<1>11. QED
  BY <1>1, <1>2, <1>3, <1>4, <1>5, <1>6, <1>7, <1>8, <1>9, <1>10 DEF ForwarderStep, HandlerStep

(* ... of the probe, which removes only channels on which it failed, while *)
(* the net.Conn is up those that either side has closed, ...               *)
LEMMA ProbeKeepsSet ==
  ASSUME ChannelTypes, ChannelsInOrder, ProbeStep
  PROVE  ChannelsInOrder'
<1> USE DEF ChannelTypes, ChannelsInOrder, OpenChansExact, FwdPC, ChanState, fwdVars, sshVars
<1>1. CASE ProbePicks
  <2>1. openChans # <<>> => Head(openChans) \in Channel  OBVIOUS
  <2>2. QED  BY <1>1, <2>1 DEF ProbePicks, SendsGlobal
<1>2. CASE ProbeSends  BY <1>2 DEF ProbeSends
<1>3. CASE ProbeFallsBack
  <2>1. /\ openChans' \in Seq(Channel) /\ Distinct(openChans')
        /\ \A d : Contains(openChans', d) <=> Contains(openChans, d) /\ d # probeChan
    <3>1. openChans \in Seq(Channel) /\ Distinct(openChans)  BY DEF Distinct
    <3>2. openChans' = RemoveFirst(openChans, probeChan)  BY <1>3 DEF ProbeFallsBack
    <3>3. QED  BY <3>1, <3>2, RemovedOnce
  <2>2. net = "up" /\ probeChan \in Channel => chan[probeChan] # "open"
    BY <1>3 DEF ProbeFallsBack, ChannelProbeFails
  <2>3. QED  BY <1>3, <2>1, <2>2 DEF ProbeFallsBack, SendsGlobal, Distinct
<1>4. CASE ProbeFails \/ ProbeResets  BY <1>4 DEF ProbeFails, ProbeResets
<1>5. CASE ProbeReleases  BY <1>5 DEF ProbeReleases
<1>6. QED  BY <1>1, <1>2, <1>3, <1>4, <1>5 DEF ProbeStep

(* ... and of the mux that ends; the others leave the set alone.           *)
LEMMA SetKept ==
  ASSUME ChannelTypes, ChannelsInOrder, [Next]_vars
  PROVE  ChannelsInOrder'
<1>1. ASSUME UNCHANGED setVars PROVE ChannelsInOrder'
  BY <1>1 DEF setVars, ChannelsInOrder, OpenChansExact
<1>2. CASE LoopTakesTick \/ LoopProbes \/ LoopStops
  BY <1>1, <1>2 DEF LoopTakesTick, LoopProbes, LoopStops, setVars, fwdVars, sshVars
<1>3. CASE HandleRequest \/ RequestHandled \/ MuxUnblocks \/ HandleConnSignals \/ KeepAliveClose
  BY <1>1, <1>3 DEF HandleRequest, RequestHandled, MuxUnblocks, HandleConnSignals, KeepAliveClose,
                    setVars, loopVars, fwdVars, sshVars
<1>4. CASE MuxExits
  BY <1>4 DEF MuxExits, ChannelTypes, ChannelsInOrder, OpenChansExact, FwdPC, ChanState, loopVars,
              fwdVars
<1>5. CASE MuxReadsReply \/ PeerStalls \/ NetError \/ TimeStep
  BY <1>1, <1>5 DEF MuxReadsReply, PeerStalls, NetError, TimeStep, setVars, loopVars, fwdVars, sshVars
<1>6. CASE \E c \in Channel \cup {Global} : MuxReadsRequest(c)
  BY <1>1, <1>6 DEF MuxReadsRequest, setVars, loopVars, fwdVars
<1>7. CASE LoopTimesOut \/ NetCloses
  BY <1>7 DEF LoopTimesOut, NetCloses, ChannelsInOrder, OpenChansExact, loopVars, fwdVars
<1>8. CASE UNCHANGED vars  BY <1>1, <1>8 DEF vars, setVars, loopVars, fwdVars, sshVars
<1>9. QED
  BY <1>2, <1>3, <1>4, <1>5, <1>6, <1>7, <1>8, ChannelKeepsSet, ProbeKeepsSet
  DEF Next, LoopStep, ConnStep, PeerStep

(* A closed channel is not probed again, none is in the set twice, and     *)
(* every channel open on both sides is in it, whatever order its opening,  *)
(* a failing probe, its close and the end of the mux come in (server.go    *)
(* 24-52, 84-118, 575-582).                                                *)
THEOREM OpenChannelsTracked == Spec => []OpenChansExact
<1>1. Init => ChannelTypes /\ ChannelsInOrder
  <2> SUFFICES ASSUME Init PROVE ChannelTypes /\ ChannelsInOrder  OBVIOUS
  <2>1. ChannelTypes
    BY CapAssumption, 0 \in 0..Cap DEF Init, ChannelTypes, FwdPC, ChanState
  <2>2. openChans \in Seq(Channel) /\ Len(openChans) = 0  BY DEF Init
  <2>3. QED  BY <2>1, <2>2 DEF Init, ChannelsInOrder, OpenChansExact, Contains
<1>2. ChannelTypes /\ ChannelsInOrder /\ [Next]_vars => (ChannelTypes /\ ChannelsInOrder)'
  BY ChannelsKept, SetKept
<1>3. ChannelsInOrder => OpenChansExact  BY DEF ChannelsInOrder
<1>4. QED  BY <1>1, <1>2, <1>3, PTL DEF Spec
=============================================================================
