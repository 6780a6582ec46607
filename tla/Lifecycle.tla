----------------------------- MODULE Lifecycle -----------------------------
(***************************************************************************)
(* The life of the node: what main, ServoHW::init, Master::init,           *)
(* ServoHW::start and manage_control acquire (the EtherCAT socket, the     *)
(* services, the subscription, the control thread), in which order and     *)
(* along which error path they give it up, and what control_loop and the   *)
(* callbacks may still be doing then.  The words are in ControlLoop.       *)
(***************************************************************************)
EXTENDS Naturals, FiniteSets

CONSTANTS Spinners    \* threads of ros::AsyncSpinner spinner(2, ...)

ASSUME SpinnerAssumption == IsFiniteSet(Spinners)

\* The steps of the main thread that can fail while ServoHW::init runs, the
\* last three of them after the socket is open.
InitStages == {"init_params", "open", "scan", "identify", "map", "config", "ratio"}

\* The main thread, in program order; "returned" is the end of manage_control
\* and "teardown" that of main, where their local objects are destroyed: of
\* servo_hw the members and last the subscriber, then the spinner.
MainStages ==
  {"params", "construct"} \cup InitStages \cup
  {"advertise", "start", "create_thread", "moveit", "publish", "close",
   "returned", "teardown", "unsubscribe", "shutdown", "atexit", "exit", "exited"}

VARIABLES
  main,         \* where the main thread is
  exit_code,    \* what main returns
  ros_ok,       \* ros::ok()
  socket,       \* the raw EtherCAT socket of SOEM
  servo_hw,     \* the ServoHW object, on the stack of main
  services,     \* the ServiceServer objects of manage_control exist
  serving,      \* spinner threads inside a service callback
  subscribed,   \* joint_state_subscriber holds a subscription
  updating,     \* spinner threads inside joint_state_updater
  thread,       \* the thread of control_loop
  late,         \* history: update() calls that ended after ros_ok fell
  started       \* history: ServoHW::start has been called

vars == <<main, exit_code, ros_ok, socket, servo_hw, services, serving, subscribed,
          updating, thread, late, started>>

subs == <<subscribed, updating>>

Looping == thread \in {"test", "sleep", "update"}

Init ==
  /\ main = "params" /\ exit_code = 0 /\ ros_ok = TRUE
  /\ socket = "none" /\ servo_hw = "none"
  /\ services = FALSE /\ serving = {} /\ subscribed = FALSE /\ updating = {}
  /\ thread = "none" /\ late = 0 /\ started = FALSE

-----------------------------------------------------------------------------
(* The main thread.                                                        *)

Return(code) == main' = "returned" /\ exit_code' = code

\* ec_close does nothing to a socket that was never opened.
CloseSocket == socket' = IF socket = "open" THEN "closed" ELSE socket

\* The parameters of main: without one of them it returns before it has made
\* any object.
ReadParams ==
  /\ main = "params"
  /\ \/ main' = "construct" /\ UNCHANGED exit_code
     \/ main' = "teardown" /\ exit_code' = 1
  /\ UNCHANGED <<subs, ros_ok, socket, servo_hw, services, serving, thread, late, started>>

\* ServoHW and then Commander, whose MoveGroupInterface throws when the group
\* is unknown or move_group is not there: nothing catches it.
Construct ==
  /\ main = "construct"
  /\ \/ main' = "init_params" /\ servo_hw' = "alive" /\ UNCHANGED exit_code
     \/ main' = "exited" /\ servo_hw' = "destroyed" /\ exit_code' = 134
  /\ UNCHANGED <<subs, ros_ok, socket, services, serving, thread, late, started>>

\* What follows each stage of the initialisation when it succeeds: ec_init,
\* ec_config_init, network_configuration, ec_config_map, config_slaves, and
\* the parameters of the pulse calculator.
NextStage ==
  [init_params |-> "open", open |-> "scan", scan |-> "identify", identify |-> "map",
   map |-> "config", config |-> "ratio", ratio |-> "advertise"]

InitStage ==
  /\ main \in InitStages
  /\ main' = NextStage[main]
  /\ socket' = IF main = "open" THEN "open" ELSE socket
  /\ UNCHANGED <<subs, exit_code, ros_ok, servo_hw, services, serving, thread, late, started>>

\* Mutant: the failures inside Master::init are not followed by close().
InitFailsUnclosed ==
  /\ main \in InitStages
  /\ Return(1)
  /\ IF main \in {"config", "ratio"} THEN CloseSocket ELSE UNCHANGED socket
  /\ UNCHANGED <<subs, ros_ok, servo_hw, services, serving, thread, late, started>>

\* Every failure that is met by a return, but that of the first parameters,
\* goes through close().
InitFails ==
  /\ main \in InitStages
  /\ Return(1)
  /\ IF main = "init_params" THEN UNCHANGED socket ELSE CloseSocket
  /\ UNCHANGED <<subs, ros_ok, servo_hw, services, serving, thread, late, started>>

\* slaves (line 318) and gear_ratio (line 136) are asked for their size outside
\* any try: that of a number throws, nothing catches it, and the process aborts
\* with no object destroyed and nothing closed.
InitThrows ==
  /\ main \in {"init_params", "ratio"}
  /\ main' = "exited" /\ exit_code' = 134
  /\ UNCHANGED <<subs, ros_ok, socket, servo_hw, services, serving, thread, late, started>>

Advertise ==
  /\ main = "advertise"
  /\ services' = TRUE
  /\ main' = "start"
  /\ UNCHANGED <<subs, exit_code, ros_ok, socket, servo_hw, serving, thread, late, started>>

\* The subscription and Master::start, which cannot fail.
Start ==
  /\ main = "start"
  /\ started' = TRUE
  /\ subscribed' = TRUE
  /\ main' = "create_thread"
  /\ UNCHANGED <<updating, exit_code, ros_ok, socket, servo_hw, services, serving, thread, late>>

\* Mutant: the node exits with the errno of the pthread call, EINVAL.
CreateThreadErrno ==
  /\ main = "create_thread"
  /\ \/ thread' = "test" /\ main' = "moveit" /\ UNCHANGED exit_code
     \/ thread' \in {"none", "test"} /\ Return(22)
  /\ UNCHANGED <<subs, ros_ok, socket, servo_hw, services, serving, late, started>>

\* The pthread calls.  `return 1' after pthread_attr_setaffinity_np is true,
\* and pthread_attr_destroy may fail once the thread runs.
CreateThread ==
  /\ main = "create_thread"
  /\ \/ thread' = "test" /\ main' = "moveit" /\ UNCHANGED exit_code
     \/ thread' = "none" /\ main' = "moveit" /\ UNCHANGED exit_code
     \/ thread' \in {"none", "test"} /\ Return(1)
  /\ UNCHANGED <<subs, ros_ok, socket, servo_hw, services, serving, late, started>>

\* set_joint_position: false only when MoveIt throws.
MoveIt ==
  /\ main = "moveit"
  /\ \/ main' = "publish" /\ UNCHANGED exit_code
     \/ Return(1)
  /\ UNCHANGED <<subs, ros_ok, socket, servo_hw, services, serving, thread, late, started>>

\* Mutant: the publishing loop never looks at ros::ok().
PublishForever ==
  /\ main = "publish"
  /\ main' = "publish"
  /\ UNCHANGED <<subs, exit_code, ros_ok, socket, servo_hw, services, serving, thread, late, started>>

\* Mutant: the publishing loop is also left while ros::ok() is true.
PublishOnce ==
  /\ main = "publish"
  /\ main' \in {"publish", "close"}
  /\ UNCHANGED <<subs, exit_code, ros_ok, socket, servo_hw, services, serving, thread, late, started>>

\* A turn of the publishing loop, or its end.
Publish ==
  /\ main = "publish"
  /\ main' = IF ros_ok THEN "publish" ELSE "close"
  /\ UNCHANGED <<subs, exit_code, ros_ok, socket, servo_hw, services, serving, thread, late, started>>

Close ==
  /\ main = "close"
  /\ CloseSocket
  /\ Return(0)
  /\ UNCHANGED <<subs, ros_ok, servo_hw, services, serving, thread, late, started>>

\* Mutant: the servers outlive manage_control.
DestroyServersNot ==
  /\ main = "returned"
  /\ main' = "teardown"
  /\ UNCHANGED <<subs, exit_code, ros_ok, socket, servo_hw, services, serving, thread, late, started>>

\* The six ServiceServer objects go; roscpp waits for a callback under way.
DestroyServers ==
  /\ main = "returned"
  /\ serving = {}
  /\ services' = FALSE
  /\ main' = "teardown"
  /\ UNCHANGED <<subs, exit_code, ros_ok, socket, servo_hw, serving, thread, late, started>>

\* The locals of main go, servo_hw first: its vectors, and the master ...
DestroyMembers ==
  /\ main = "teardown"
  /\ servo_hw' = IF servo_hw = "alive" THEN "dying" ELSE servo_hw
  /\ main' = "unsubscribe"
  /\ UNCHANGED <<subs, exit_code, ros_ok, socket, services, serving, thread, late, started>>

\* Mutant: the subscription outlives servo_hw.
UnsubscribeNot ==
  /\ main = "unsubscribe"
  /\ servo_hw' = IF servo_hw = "dying" THEN "destroyed" ELSE servo_hw
  /\ main' = "shutdown"
  /\ UNCHANGED <<subs, exit_code, ros_ok, socket, services, serving, thread, late, started>>

\* ... and last its first member, joint_state_subscriber; roscpp waits for a
\* callback under way.
Unsubscribe ==
  /\ main = "unsubscribe"
  /\ updating = {}
  /\ subscribed' = FALSE
  /\ servo_hw' = IF servo_hw = "dying" THEN "destroyed" ELSE servo_hw
  /\ main' = "shutdown"
  /\ UNCHANGED <<updating, exit_code, ros_ok, socket, services, serving, thread, late, started>>

\* Then the spinner and the NodeHandle of main.  It is the last one, which shuts
\* ROS down, only when there was no Commander: this one never deletes its
\* AsyncSpinner and its two MoveGroupInterfaces, which hold NodeHandles.
Teardown ==
  /\ main = "shutdown"
  /\ ros_ok' = (ros_ok /\ servo_hw # "none")
  /\ main' = "atexit"
  /\ UNCHANGED <<subs, exit_code, socket, servo_hw, services, serving, thread, late, started>>

\* main has returned; what roscpp has registered with atexit shuts ROS down.
\* Nobody joins the control thread ...
AtExit ==
  /\ main = "atexit"
  /\ ros_ok' = FALSE
  /\ main' = "exit"
  /\ UNCHANGED <<subs, exit_code, socket, servo_hw, services, serving, thread, late, started>>

\* ... which runs on until the process is gone.
Exit ==
  /\ main = "exit"
  /\ main' = "exited"
  /\ thread' = IF Looping THEN "killed" ELSE thread
  /\ UNCHANGED <<subs, exit_code, ros_ok, socket, servo_hw, services, serving, late, started>>

Main ==
  \/ ReadParams \/ Construct \/ InitStage \/ InitFails \/ InitThrows
  \/ Advertise \/ Start \/ CreateThread \/ MoveIt \/ Publish \/ Close
  \/ DestroyServers \/ DestroyMembers \/ Unsubscribe \/ Teardown \/ AtExit \/ Exit

-----------------------------------------------------------------------------
(* The control thread and the spinners, while the process lives.           *)

\* Mutant: while (true).
TestNothing ==
  /\ thread = "test" /\ main # "exited"
  /\ thread' = "sleep"
  /\ UNCHANGED <<subs, main, exit_code, ros_ok, socket, servo_hw, services, serving, late, started>>

\* while (ros::ok()), before add_timespec.
Test ==
  /\ thread = "test" /\ main # "exited"
  /\ thread' = IF ros_ok THEN "sleep" ELSE "ended"
  /\ UNCHANGED <<subs, main, exit_code, ros_ok, socket, servo_hw, services, serving, late, started>>

\* The sleep and the command of the script.
Wake ==
  /\ thread = "sleep" /\ main # "exited"
  /\ thread' = "update"
  /\ UNCHANGED <<subs, main, exit_code, ros_ok, socket, servo_hw, services, serving, late, started>>

Update ==
  /\ thread = "update" /\ main # "exited"
  /\ thread' = "test"
  /\ late' = IF ros_ok THEN late ELSE late + 1
  /\ UNCHANGED <<subs, main, exit_code, ros_ok, socket, servo_hw, services, serving, started>>

control_loop == Test \/ Wake \/ Update

\* A spinner takes no callback from the queue once ROS is shut down.
ServiceCall(s) ==
  /\ services /\ ros_ok /\ s \notin serving \cup updating /\ main # "exited"
  /\ serving' = serving \cup {s}
  /\ UNCHANGED <<subs, main, exit_code, ros_ok, socket, servo_hw, services, thread, late, started>>

ServiceReturn(s) ==
  /\ s \in serving /\ main # "exited"
  /\ serving' = serving \ {s}
  /\ UNCHANGED <<subs, main, exit_code, ros_ok, socket, servo_hw, services, thread, late, started>>

\* joint_state_updater, which roscpp never runs twice at a time.
UpdaterCall(s) ==
  /\ subscribed /\ ros_ok /\ updating = {} /\ s \notin serving /\ main # "exited"
  /\ updating' = {s}
  /\ UNCHANGED <<subscribed, main, exit_code, ros_ok, socket, servo_hw, services, serving, thread, late, started>>

UpdaterReturn(s) ==
  /\ s \in updating /\ main # "exited"
  /\ updating' = updating \ {s}
  /\ UNCHANGED <<subscribed, main, exit_code, ros_ok, socket, servo_hw, services, serving, thread, late, started>>

spinner(s) ==
  ServiceCall(s) \/ ServiceReturn(s) \/ UpdaterCall(s) \/ UpdaterReturn(s)

\* SIGINT, or `rosnode kill'.
Shutdown ==
  /\ ros_ok /\ main # "exited"
  /\ ros_ok' = FALSE
  /\ UNCHANGED <<subs, main, exit_code, socket, servo_hw, services, serving, thread, late, started>>

Next ==
  \/ Main \/ control_loop \/ Shutdown
  \/ \E s \in Spinners : spinner(s)

\* Every thread is scheduled, and ROS, MoveIt and SOEM answer or time out.
Fairness ==
  /\ WF_vars(Main) /\ WF_vars(control_loop)
  /\ \A s \in Spinners : WF_vars(ServiceReturn(s)) /\ WF_vars(UpdaterReturn(s))

Spec     == Init /\ [][Next]_vars
FairSpec == Spec /\ Fairness

-----------------------------------------------------------------------------
TypeOK ==
  /\ main \in MainStages /\ exit_code \in {0, 1, 134} /\ ros_ok \in BOOLEAN
  /\ socket \in {"none", "open", "closed"}
  /\ servo_hw \in {"none", "alive", "dying", "destroyed"}
  /\ services \in BOOLEAN /\ serving \subseteq Spinners
  /\ subscribed \in BOOLEAN /\ updating \subseteq Spinners
  /\ thread \in {"none", "test", "sleep", "update", "ended", "killed"}
  /\ late \in Nat /\ started \in BOOLEAN

(***************************************************************************)
(* Once ROS is shut down the control loop exchanges at most one more frame *)
(* with the drives, the one of the cycle it is in, whoever shut ROS down   *)
(* and wherever the loop was.                                              *)
(***************************************************************************)
StopsWithinACycle == late <= 1

(***************************************************************************)
(* A service callback only runs on a ServoHW that exists and whose socket  *)
(* has been opened: the servers are local to manage_control, so that each  *)
(* of its returns waits for the callbacks under way before main destroys   *)
(* servo_hw, although the spinner is stopped only after that.              *)
(***************************************************************************)
ServicesUseLiveMaster == serving # {} => servo_hw = "alive" /\ socket # "none"

(***************************************************************************)
(* joint_state_updater only runs once the ratios it uses are read, and     *)
(* never after ServoHW is gone.  No more is true: between the destruction  *)
(* of the vectors it writes and that of the subscriber, which is declared  *)
(* before them, it may be under way or even start.  Only that stage of the *)
(* teardown is exposed, and main leaves it once the callback is over.      *)
(***************************************************************************)
UpdaterEndsFirst ==
  updating # {} => /\ started
                   /\ servo_hw = "alive" \/ (servo_hw = "dying" /\ main = "unsubscribe")

(***************************************************************************)
(* A cycle of the loop never begins on a closed socket, and on a ServoHW   *)
(* that main is destroying or has destroyed only after manage_control has  *)
(* returned 1 (lines 54 and 61), which nobody tells the loop: after a      *)
(* shutdown main gives neither up before the loop can see it.              *)
(***************************************************************************)
CyclesUseLiveHardware ==
  [][thread = "test" /\ thread' = "sleep" =>
       socket = "open" /\ (servo_hw = "alive" \/ exit_code = 1)]_vars

(***************************************************************************)
(* A failure before ServoHW::start gives the socket up or throws: the      *)
(* process ends with the socket open only through the error returns of     *)
(* manage_control after start() (lines 54 and 61), or when the gear ratios *)
(* are no list and it aborts, and never with status 0.                     *)
(***************************************************************************)
SocketGivenUp ==
  main \in {"atexit", "exit", "exited"} /\ socket = "open" =>
    IF started THEN exit_code = 1 ELSE exit_code = 134

\* The steps that are left: of the main thread, each of which may begin a cycle
\* of the loop, of that cycle, and of the callbacks under way.
MainLeft ==
  [params |-> 21, construct |-> 20, init_params |-> 19, open |-> 18, scan |-> 17,
   identify |-> 16, map |-> 15, config |-> 14, ratio |-> 13, advertise |-> 12,
   start |-> 11, create_thread |-> 10, moveit |-> 9, publish |-> 8, close |-> 7,
   returned |-> 6, teardown |-> 5, unsubscribe |-> 4, shutdown |-> 3, atexit |-> 2,
   exit |-> 1, exited |-> 0]

ThreadLeft ==
  [none |-> 0, test |-> 1, update |-> 2, sleep |-> 3, ended |-> 0, killed |-> 0]

StepsLeft ==
  4 * MainLeft[main] + ThreadLeft[thread] + Cardinality(serving) + Cardinality(updating)

(***************************************************************************)
(* Once ROS is shut down whatever any thread of the node does brings its   *)
(* end nearer: wherever the shutdown meets main, the loop and the          *)
(* callbacks, none of them starts over or begins anything that has no end, *)
(* so that all of them together take boundedly many steps.                 *)
(***************************************************************************)
ShutdownIsBounded == [][~ros_ok => StepsLeft' < StepsLeft]_vars

(***************************************************************************)
(* After ros::ok() has become false the node ends.                         *)
(***************************************************************************)
ShutdownEnds == ~ros_ok ~> main = "exited"

=============================================================================
