-------------------------- MODULE LifecycleProofs --------------------------
(***************************************************************************)
(* Proofs about Lifecycle for any number of spinner threads.               *)
(***************************************************************************)
EXTENDS Lifecycle, FiniteSetTheorems, TLAPS

-----------------------------------------------------------------------------
(* The inductive invariant.                                                *)

\* The stages before the socket is open, and those of a live ServoHW.
BeforeOpen == {"params", "construct", "init_params", "open"}
Alive ==
  MainStages \ {"params", "construct", "teardown", "unsubscribe", "shutdown", "atexit", "exit", "exited"}

\* The loop that has made a late exchange is about to see that ROS is down.
LateInv == late = 0 \/ (late = 1 /\ ~ros_ok /\ ~(thread \in {"sleep", "update"}))

\* The servers exist only inside manage_control, past the initialisation.
ServerInv ==
  /\ serving # {} => services
  /\ services => main \in {"start", "create_thread", "moveit", "publish", "close", "returned"}
  /\ services => socket # "none"
  /\ main \in Alive => servo_hw = "alive"

\* An open socket is given up by the failures that return from the
\* initialisation, not by the exception that aborts it.
SocketInv ==
  /\ main \in BeforeOpen => socket = "none" /\ ~started
  /\ main \in (InitStages \ BeforeOpen) \cup
              {"advertise", "start", "create_thread", "moveit", "publish", "close"}
       => socket = "open"
  /\ main \in {"create_thread", "moveit", "publish", "close"} => started
  /\ main \in {"returned", "teardown", "unsubscribe", "shutdown", "atexit", "exit"}
     /\ socket = "open"
       => started /\ exit_code = 1
  /\ main = "exited" /\ socket = "open" /\ started => exit_code = 1
  /\ main = "exited" /\ socket = "open" /\ ~started => exit_code = 134
  /\ main \in InitStages => ~started

\* The subscription is made by start() and ends with servo_hw.
SubInv ==
  /\ updating # {} => subscribed
  /\ subscribed =>
       /\ started
       /\ \/ /\ main \in {"create_thread", "moveit", "publish", "close", "returned", "teardown"}
             /\ servo_hw = "alive"
          \/ main = "unsubscribe" /\ servo_hw = "dying"

\* While ROS is up the loop has its socket, and main leaves manage_control, and
\* destroys servo_hw, only after an error.
LoopInv ==
  /\ thread # "none" => started
  /\ Looping /\ ros_ok => socket = "open"
  /\ main \in {"close", "exit"} => ~ros_ok
  /\ main \in {"returned", "teardown", "unsubscribe", "shutdown", "atexit", "exited"} /\ ros_ok
       => exit_code \in {1, 134}
  /\ exit_code = 134 => main = "exited" /\ thread = "none"
  /\ servo_hw \in {"dying", "destroyed"} => main \in MainStages \ Alive
  /\ servo_hw = "none" => thread = "none" /\ main \in MainStages \ Alive

LifeInv == TypeOK /\ LateInv /\ ServerInv /\ SocketInv /\ SubInv /\ LoopInv

-----------------------------------------------------------------------------
LEMMA InitLife == Init => LifeInv
  <1>1. Init => TypeOK
    <2>1. Init => /\ ros_ok \in BOOLEAN /\ services \in BOOLEAN
                  /\ started \in BOOLEAN /\ subscribed \in BOOLEAN
      BY Zenon DEF Init
    <2>2. Init => /\ main \in MainStages /\ exit_code \in {0, 1, 134} /\ late \in Nat
                  /\ socket \in {"none", "open", "closed"}
                  /\ servo_hw \in {"none", "alive", "dying", "destroyed"}
                  /\ thread \in {"none", "test", "sleep", "update", "ended", "killed"}
      BY SMT DEF Init, MainStages
    <2>3. Init => serving \subseteq Spinners /\ updating \subseteq Spinners
      BY Zenon DEF Init
    <2> QED
      BY <2>1, <2>2, <2>3, Zenon DEF TypeOK
  <1>2. Init => LateInv
    BY DEF Init, LateInv
  <1>3. Init => ServerInv
    BY DEF Init, ServerInv, Alive
  <1>4. Init => SocketInv
    BY DEF Init, SocketInv, BeforeOpen, InitStages
  <1>5. Init => SubInv
    BY DEF Init, SubInv
  <1>6. Init => LoopInv
    BY DEF Init, LoopInv, Looping, MainStages, Alive
  <1> QED
    BY <1>1, <1>2, <1>3, <1>4, <1>5, <1>6 DEF LifeInv

\* The main thread preserves the invariant.
LEMMA MainLife == LifeInv /\ Main => LifeInv'
  <1> SUFFICES ASSUME LifeInv, Main PROVE LifeInv'
    OBVIOUS
  <1> USE DEF LifeInv, TypeOK, LateInv, ServerInv, SocketInv, SubInv, LoopInv, Looping, subs, MainStages, InitStages, Alive, BeforeOpen, Return, CloseSocket
  <1>1. CASE ReadParams
    BY <1>1 DEF ReadParams
  <1>2. CASE Construct
    <2>1. TypeOK'
      BY <1>2 DEF Construct
    <2>2. LateInv'
      BY <1>2 DEF Construct
    <2>3. ServerInv'
      BY <1>2 DEF Construct
    <2>4. SocketInv'
      BY <1>2 DEF Construct
    <2>5. SubInv'
      BY <1>2 DEF Construct
    <2>6. LoopInv'
      BY <1>2 DEF Construct
    <2> QED
      BY <2>1, <2>2, <2>3, <2>4, <2>5, <2>6
  <1>3. CASE InitStage
    <2>1. main \in InitStages /\ main' = NextStage[main]
      BY <1>3 DEF InitStage
    <2>2. \/ main = "init_params" /\ main' = "open"
          \/ main = "open" /\ main' = "scan"
          \/ main = "scan" /\ main' = "identify"
          \/ main = "identify" /\ main' = "map"
          \/ main = "map" /\ main' = "config"
          \/ main = "config" /\ main' = "ratio"
          \/ main = "ratio" /\ main' = "advertise"
      BY <2>1 DEF NextStage
    <2> QED
      BY <1>3, <2>2 DEF InitStage
  <1>4. CASE InitFails
    BY <1>4 DEF InitFails
  <1>5. CASE Advertise
    BY <1>5 DEF Advertise
  <1>6. CASE Start
    BY <1>6 DEF Start
  <1>7. CASE CreateThread
    <2>1. LateInv'
      BY <1>7 DEF CreateThread
    <2> QED
      BY <1>7, <2>1 DEF CreateThread
  <1>8. CASE MoveIt
    BY <1>8 DEF MoveIt
  <1>9. CASE Publish
    BY <1>9 DEF Publish
  <1>10. CASE Close
    BY <1>10 DEF Close
  <1>11. CASE DestroyServers
    <2>1. TypeOK'
      <3>1. services' \in BOOLEAN
        BY <1>11, Zenon DEF DestroyServers
      <3>2. UNCHANGED <<exit_code, ros_ok, socket, servo_hw, serving, subscribed,
                        updating, thread, late, started>> /\ main' = "teardown"
        BY <1>11 DEF DestroyServers
      <3>3. servo_hw' \in {"none", "alive", "dying", "destroyed"}
        BY <1>11 DEF DestroyServers
      <3> QED
        BY <3>1, <3>2, <3>3
    <2>2. LateInv'
      BY <1>11 DEF DestroyServers
    <2>3. ServerInv'
      BY <1>11 DEF DestroyServers
    <2>4. SocketInv'
      BY <1>11 DEF DestroyServers
    <2>5. SubInv'
      BY <1>11 DEF DestroyServers
    <2>6. LoopInv'
      BY <1>11 DEF DestroyServers
    <2> QED
      BY <2>1, <2>2, <2>3, <2>4, <2>5, <2>6
  <1>12. CASE Teardown
    BY <1>12 DEF Teardown
  <1>13. CASE Exit
    BY <1>13 DEF Exit
  <1>14. CASE DestroyMembers
    BY <1>14 DEF DestroyMembers
  <1>15. CASE Unsubscribe
    <2>1. TypeOK'
      <3>1. subscribed' \in BOOLEAN
        BY <1>15, Zenon DEF Unsubscribe
      <3>2. UNCHANGED <<exit_code, ros_ok, socket, services, serving, updating,
                        thread, late, started>> /\ main' = "shutdown"
        BY <1>15 DEF Unsubscribe
      <3>3. servo_hw' \in {"none", "alive", "dying", "destroyed"}
        BY <1>15 DEF Unsubscribe
      <3> QED
        BY <3>1, <3>2, <3>3
    <2>2. LateInv'
      BY <1>15 DEF Unsubscribe
    <2>3. ServerInv'
      BY <1>15 DEF Unsubscribe
    <2>4. SocketInv'
      BY <1>15 DEF Unsubscribe
    <2>5. SubInv'
      BY <1>15 DEF Unsubscribe
    <2>6. LoopInv'
      BY <1>15 DEF Unsubscribe
    <2> QED
      BY <2>1, <2>2, <2>3, <2>4, <2>5, <2>6
  <1>16. CASE InitThrows
    <2>1. TypeOK'
      BY <1>16 DEF InitThrows
    <2>2. LateInv'
      BY <1>16 DEF InitThrows
    <2>3. ServerInv'
      BY <1>16 DEF InitThrows
    <2>4. SocketInv'
      BY <1>16 DEF InitThrows
    <2>5. SubInv'
      BY <1>16 DEF InitThrows
    <2>6. LoopInv'
      BY <1>16 DEF InitThrows
    <2> QED
      BY <2>1, <2>2, <2>3, <2>4, <2>5, <2>6
  <1>17. CASE AtExit
    <2>1. TypeOK'
      BY <1>17 DEF AtExit
    <2>2. LateInv'
      BY <1>17 DEF AtExit
    <2>3. ServerInv'
      BY <1>17 DEF AtExit
    <2>4. SocketInv'
      BY <1>17 DEF AtExit
    <2>5. SubInv'
      BY <1>17 DEF AtExit
    <2>6. LoopInv'
      BY <1>17 DEF AtExit
    <2> QED
      BY <2>1, <2>2, <2>3, <2>4, <2>5, <2>6
  <1> QED
    BY <1>1, <1>2, <1>3, <1>4, <1>5, <1>6, <1>7, <1>8, <1>9, <1>10, <1>11, <1>12, <1>13,
       <1>14, <1>15, <1>16, <1>17
       DEF Main

\* So do the control thread, the spinners and a shutdown.
LEMMA OthersLife ==
  LifeInv /\ (control_loop \/ Shutdown \/ \E s \in Spinners : spinner(s))
    => LifeInv'
  <1> USE DEF LifeInv, TypeOK, LateInv, ServerInv, SocketInv, SubInv, LoopInv, Looping, subs, MainStages, InitStages, Alive, BeforeOpen
  <1>1. LifeInv /\ Test => LifeInv'
    BY DEF Test
  <1>2. LifeInv /\ Wake => LifeInv'
    BY DEF Wake
  <1>3. LifeInv /\ Update => LifeInv'
    BY DEF Update
  <1>4. ASSUME LifeInv, Shutdown PROVE LifeInv'
    <2>1. TypeOK'
      <3>1. ros_ok' \in BOOLEAN
        BY <1>4, Zenon DEF Shutdown
      <3>2. UNCHANGED <<main, exit_code, socket, servo_hw, services, serving, subscribed,
                        updating, thread, late, started>>
        BY <1>4 DEF Shutdown
      <3> QED
        BY <1>4, <3>1, <3>2
    <2>2. LateInv'
      BY <1>4 DEF Shutdown
    <2>3. ServerInv'
      BY <1>4 DEF Shutdown
    <2>4. SocketInv'
      BY <1>4 DEF Shutdown
    <2>5. SubInv'
      BY <1>4 DEF Shutdown
    <2>6. LoopInv'
      BY <1>4 DEF Shutdown
    <2> QED
      BY <2>1, <2>2, <2>3, <2>4, <2>5, <2>6
  <1>5. ASSUME NEW s \in Spinners, LifeInv, ServiceCall(s) PROVE LifeInv'
    BY <1>5 DEF ServiceCall
  <1>6. ASSUME NEW s \in Spinners, LifeInv, ServiceReturn(s) PROVE LifeInv'
    BY <1>6 DEF ServiceReturn
  <1>7. ASSUME NEW s \in Spinners, LifeInv, UpdaterCall(s) PROVE LifeInv'
    BY <1>7 DEF UpdaterCall
  <1>8. ASSUME NEW s \in Spinners, LifeInv, UpdaterReturn(s) PROVE LifeInv'
    BY <1>8 DEF UpdaterReturn
  <1> QED
    BY <1>1, <1>2, <1>3, <1>4, <1>5, <1>6, <1>7, <1>8 DEF control_loop, spinner

LEMMA StutterLife == LifeInv /\ UNCHANGED vars => LifeInv'
  BY DEF LifeInv, TypeOK, LateInv, ServerInv, SocketInv, SubInv, LoopInv, Looping, vars

LEMMA Life == Spec => []LifeInv
  <1>1. LifeInv /\ [Next]_vars => LifeInv'
    BY MainLife, OthersLife, StutterLife DEF Next
  <1> QED
    BY InitLife, <1>1, PTL DEF Spec

-----------------------------------------------------------------------------
(***************************************************************************)
(* Every variable keeps its type, whatever fails and whoever shuts down.   *)
(***************************************************************************)
THEOREM LifecycleTyped == Spec => []TypeOK
  <1>1. LifeInv => TypeOK
    BY DEF LifeInv
  <1> QED
    BY Life, <1>1, PTL

(***************************************************************************)
(* After a shutdown the loop sends at most one more frame.                 *)
(***************************************************************************)
THEOREM LoopStopsWithinACycle == Spec => []StopsWithinACycle
  <1>1. LifeInv => StopsWithinACycle
    BY DEF LifeInv, LateInv, StopsWithinACycle
  <1> QED
    BY Life, <1>1, PTL

(***************************************************************************)
(* No service callback outlives the ServoHW it runs on.                    *)
(***************************************************************************)
THEOREM ServicesAreSafe == Spec => []ServicesUseLiveMaster
  <1>1. LifeInv => ServicesUseLiveMaster
    BY DEF LifeInv, TypeOK, ServerInv, ServicesUseLiveMaster, Alive, MainStages, InitStages
  <1> QED
    BY Life, <1>1, PTL

(***************************************************************************)
(* joint_state_updater never runs before the ratios are read nor on a      *)
(* ServoHW that is gone.                                                   *)
(***************************************************************************)
THEOREM UpdaterIsBounded == Spec => []UpdaterEndsFirst
  <1>1. LifeInv => UpdaterEndsFirst
    BY DEF LifeInv, SubInv, UpdaterEndsFirst
  <1> QED
    BY Life, <1>1, PTL

(***************************************************************************)
(* No cycle of the loop begins on a closed socket, and none on a servo_hw  *)
(* that is no longer whole but after an error return of manage_control.    *)
(***************************************************************************)
THEOREM CyclesAreSafe == Spec => CyclesUseLiveHardware
  <1>1. ASSUME LifeInv, Next, thread = "test", thread' = "sleep"
        PROVE  socket = "open" /\ (servo_hw = "alive" \/ exit_code = 1)
    <2>1. ros_ok
      <3>1. CASE Test
        BY <1>1, <3>1 DEF Test
      <3>2. CASE Wake \/ Update \/ Shutdown \/ \E s \in Spinners : spinner(s)
        BY <1>1, <3>2 DEF Wake, Update, Shutdown, spinner, ServiceCall, ServiceReturn,
                          UpdaterCall, UpdaterReturn
      <3>3. CASE Main
        BY <1>1, <3>3 DEF Main, ReadParams, Construct, InitStage, InitFails, InitThrows,
          Advertise, Start, CreateThread, MoveIt, Publish, Close, DestroyServers,
          DestroyMembers, Unsubscribe, Teardown, AtExit, Exit
      <3> QED
        BY <1>1, <3>1, <3>2, <3>3 DEF Next, control_loop
    <2>2. socket = "open"
      BY <1>1, <2>1 DEF LifeInv, LoopInv, Looping
    <2>3. CASE servo_hw \in {"dying", "destroyed"}
      <3>1. main \in {"params", "construct", "teardown", "unsubscribe", "shutdown", "atexit",
                      "exit", "exited"}
        BY <1>1, <2>3 DEF LifeInv, LoopInv, Alive, MainStages
      <3>2. main \notin {"params", "construct", "exit"}
        BY <1>1, <2>1, <2>2 DEF LifeInv, LoopInv, SocketInv, BeforeOpen
      <3>3. exit_code = 1
        BY <1>1, <2>1, <3>1, <3>2 DEF LifeInv, LoopInv
      <3> QED
        BY <2>2, <3>3
    <2>4. CASE servo_hw \in {"none", "alive"}
      BY <1>1, <2>2, <2>4 DEF LifeInv, LoopInv
    <2> QED
      BY <1>1, <2>3, <2>4 DEF LifeInv, TypeOK
  <1>2. LifeInv /\ [Next]_vars
          => [thread = "test" /\ thread' = "sleep" =>
                socket = "open" /\ (servo_hw = "alive" \/ exit_code = 1)]_vars
    BY <1>1
  <1> QED
    BY <1>2, Life, PTL DEF Spec, CyclesUseLiveHardware

(***************************************************************************)
(* No failure of the initialisation leaves the socket open but the one     *)
(* that aborts the process, and none of the others after start() has       *)
(* status 0.                                                               *)
(***************************************************************************)
THEOREM SocketIsGivenUp == Spec => []SocketGivenUp
  <1>1. LifeInv => SocketGivenUp
    BY DEF LifeInv, SocketInv, SocketGivenUp
  <1> QED
    BY Life, <1>1, PTL

-----------------------------------------------------------------------------
(* What is left after a shutdown.                                          *)

LEMMA LeftType ==
  ASSUME LifeInv
  PROVE  /\ main \in DOMAIN MainLeft /\ MainLeft[main] \in Nat
         /\ thread \in DOMAIN ThreadLeft /\ ThreadLeft[thread] \in 0 .. 3
         /\ IsFiniteSet(serving) /\ Cardinality(serving) \in Nat
         /\ IsFiniteSet(updating) /\ Cardinality(updating) \in Nat
  <1>1. main \in DOMAIN MainLeft /\ MainLeft[main] \in Nat
    BY DEF LifeInv, TypeOK, MainStages, InitStages, MainLeft
  <1>2. thread \in DOMAIN ThreadLeft /\ ThreadLeft[thread] \in 0 .. 3
    BY DEF LifeInv, TypeOK, ThreadLeft
  <1>3. IsFiniteSet(serving) /\ IsFiniteSet(updating)
    BY SpinnerAssumption, FS_Subset DEF LifeInv, TypeOK
  <1> QED
    BY <1>1, <1>2, <1>3, FS_CardinalityType

\* A step of main leaves main with less to do, and the others with no more than
\* a cycle of the loop.
LEMMA MainProgress ==
  ASSUME LifeInv, ~ros_ok, Main
  PROVE  StepsLeft' < StepsLeft
  <1>1. /\ main' \in DOMAIN MainLeft /\ MainLeft[main'] \in Nat /\ MainLeft[main'] < MainLeft[main]
        /\ UNCHANGED <<serving, updating>>
        /\ thread' = thread \/ thread' \in {"none", "test", "killed"}
    <2> USE DEF LifeInv, TypeOK, MainLeft, Return, subs
    <2>1. CASE ReadParams \/ Construct
      BY <2>1 DEF ReadParams, Construct
    <2>2. CASE InitStage
      BY <2>2 DEF InitStage, InitStages, NextStage
    <2>3. CASE InitFails \/ InitThrows
      BY <2>3 DEF InitFails, InitThrows, InitStages
    <2>4. CASE Advertise \/ Start
      BY <2>4 DEF Advertise, Start
    <2>5. CASE CreateThread
      BY <2>5 DEF CreateThread
    <2>6. CASE MoveIt \/ Publish \/ Close
      BY <2>6 DEF MoveIt, Publish, Close
    <2>7. CASE DestroyServers \/ DestroyMembers \/ Unsubscribe
      BY <2>7 DEF DestroyServers, DestroyMembers, Unsubscribe
    <2>8. CASE Teardown \/ AtExit \/ Exit
      BY <2>8 DEF Teardown, AtExit, Exit
    <2> QED
      BY <2>1, <2>2, <2>3, <2>4, <2>5, <2>6, <2>7, <2>8 DEF Main
  <1>2. ThreadLeft[thread'] \in Nat /\ ThreadLeft[thread'] <= ThreadLeft[thread] + 1
    BY <1>1, LeftType DEF ThreadLeft
  <1> QED
    BY <1>1, <1>2, LeftType DEF StepsLeft

LEMMA LoopProgress ==
  ASSUME LifeInv, ~ros_ok, control_loop
  PROVE  StepsLeft' < StepsLeft
  <1>1. UNCHANGED <<main, serving, updating>> /\ ThreadLeft[thread'] < ThreadLeft[thread]
        /\ ThreadLeft[thread'] \in Nat
    BY DEF control_loop, Test, Wake, Update, ThreadLeft, subs
  <1> QED
    BY <1>1, LeftType DEF StepsLeft

\* No callback begins any more, and one that returns is one less.
LEMMA SpinnerProgress ==
  ASSUME LifeInv, ~ros_ok, NEW s \in Spinners, spinner(s)
  PROVE  StepsLeft' < StepsLeft
  <1>1. CASE ServiceReturn(s)
    <2>1. Cardinality(serving \ {s}) = Cardinality(serving) - 1
      BY <1>1, LeftType, FS_RemoveElement DEF ServiceReturn
    <2>2. serving' = serving \ {s} /\ UNCHANGED <<main, thread, updating>>
      BY <1>1 DEF ServiceReturn, subs
    <2> QED
      BY <2>1, <2>2, LeftType DEF StepsLeft
  <1>2. CASE UpdaterReturn(s)
    <2>1. Cardinality(updating \ {s}) = Cardinality(updating) - 1
      BY <1>2, LeftType, FS_RemoveElement DEF UpdaterReturn
    <2>2. updating' = updating \ {s} /\ UNCHANGED <<main, thread, serving>>
      BY <1>2 DEF UpdaterReturn
    <2> QED
      BY <2>1, <2>2, LeftType DEF StepsLeft
  <1> QED
    BY <1>1, <1>2 DEF spinner, ServiceCall, UpdaterCall

(***************************************************************************)
(* After a shutdown every step of any thread brings the end of the node    *)
(* nearer, so that there are boundedly many of them.                       *)
(***************************************************************************)
THEOREM ShutdownProgresses == Spec => ShutdownIsBounded
  <1>1. LifeInv /\ [Next]_vars => [~ros_ok => StepsLeft' < StepsLeft]_vars
    BY MainProgress, LoopProgress, SpinnerProgress DEF Next, Shutdown
  <1> QED
    BY <1>1, Life, PTL DEF Spec, ShutdownIsBounded

=============================================================================
