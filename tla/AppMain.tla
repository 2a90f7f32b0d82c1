------------------------------ MODULE AppMain ------------------------------
(***************************************************************************)
(* The life of one benchmark process: the future chain that every main()   *)
(* of src/app builds over a sharded<throughput_service>, the at_exit hook  *)
(* it registers, and the shard-to-shard calls that both of them make.      *)
(*                                                                         *)
(* invoke_on_all posts one call to every shard and resolves when all of    *)
(* them have resolved; calls posted to a shard are started in order.  A    *)
(* call is started by an action of the module that EXTENDS this one (the   *)
(* bodies of the service's member functions differ between the programs).  *)
(***************************************************************************)
EXTENDS Sequences

CONSTANT Shards  \* the shards of the process (--smp)

ASSUME ShardsAssumption == Shards # {}

VARIABLES
  main,      \* the stage of the chain that is being waited for
  mainWait,  \* the shards whose call of that stage has not resolved
  mainErr,   \* some call of that stage has resolved with an exception
  exit,      \* the reactor's exit tasks: "idle", "stop" or "stuck"
  exitWait,  \* the shards on which the at_exit stop() has not resolved
  exitErr,   \* the at_exit stop() has failed on some shard
  mail,      \* per shard, the calls posted to it and not yet started
  alive,     \* per shard, whether the service instance exists
  proc       \* "up", or how the process ended

mainVars == <<main, mainWait, mainErr>>
exitVars == <<exit, exitWait, exitErr>>
appVars  == <<main, mainWait, mainErr, exit, exitWait, exitErr, mail, alive, proc>>

\* Variant: the service is stopped before the report.
FollowingStopFirst == [setup |-> "run", run |-> "stop", stop |-> "clear", clear |-> "report"]

(***************************************************************************)
(* The stages of the chain, in order.  "stop" and "clear" are the two      *)
(* phases of sharded::stop: service.stop() everywhere, then destruction.   *)
(***************************************************************************)
Following == [setup |-> "run", run |-> "report", report |-> "stop", stop |-> "clear"]
Finished  == {"done", "failed"}
Ends      == {"exited", "gate_assert", "sharded_assert", "use_after_free"}

\* A stage is past the report once write_throughput_report has resolved.
Reported == main \in {"stop", "clear", "done"}

AppInit ==
  /\ main = "setup" /\ mainWait = Shards /\ mainErr = FALSE
  /\ exit = "idle"  /\ exitWait = {}     /\ exitErr = FALSE
  /\ mail = [s \in Shards |-> <<"main">>]
  /\ alive = [s \in Shards |-> TRUE]
  /\ proc = "up"

AppTypeOK ==
  /\ main \in DOMAIN Following \cup {"clear"} \cup Finished
  /\ mainWait \subseteq Shards /\ mainErr \in BOOLEAN
  /\ exit \in {"idle", "stop", "stuck"}
  /\ exitWait \subseteq Shards /\ exitErr \in BOOLEAN
  /\ mail \in [Shards -> {<<>>, <<"main">>, <<"exit">>, <<"main", "exit">>, <<"exit", "main">>}]
  /\ alive \in [Shards -> BOOLEAN]
  /\ proc \in {"up"} \cup Ends

Post(call) == mail' = [s \in Shards |-> Append(mail[s], call)]

\* Shard s starts the oldest call posted to it, which is one of caller's.
Deliver(s, caller) ==
  /\ proc = "up"
  /\ mail[s] # <<>>
  /\ Head(mail[s]) = caller
  /\ mail' = [mail EXCEPT ![s] = Tail(@)]

-----------------------------------------------------------------------------
(* The chain of main(). *)

\* Every shard's call has resolved: the next .then of the chain runs.
MainThen ==
  /\ proc = "up"
  /\ main \in DOMAIN Following
  /\ mainWait = {} /\ ~mainErr
  /\ main' = Following[main]
  /\ mainWait' = Shards
  /\ Post("main")
  /\ UNCHANGED <<mainErr, exitVars, alive, proc>>

\* Variant: the first failure is not held back until every call has resolved.
MainFailAtOnce ==
  /\ proc = "up"
  /\ main \in DOMAIN Following
  /\ mainErr
  /\ main' = "failed"
  /\ UNCHANGED <<mainWait, mainErr, exitVars, mail, alive, proc>>

\* A call failed: the remaining .thens are skipped, the report and the
\* service's stop() among them.
MainFail ==
  /\ proc = "up"
  /\ main \in DOMAIN Following
  /\ mainWait = {} /\ mainErr
  /\ main' = "failed"
  /\ UNCHANGED <<mainWait, mainErr, exitVars, mail, alive, proc>>

MainDone ==
  /\ proc = "up"
  /\ main = "clear"
  /\ mainWait = {}
  /\ main' = "done"
  /\ UNCHANGED <<mainWait, mainErr, exitVars, mail, alive, proc>>

\* sharded::stop, second phase: the instance of shard s is destroyed.
Destroy(s) ==
  /\ main = "clear"
  /\ Deliver(s, "main")
  /\ alive' = [alive EXCEPT ![s] = FALSE]
  /\ mainWait' = mainWait \ {s}
  /\ UNCHANGED <<main, mainErr, exitVars, proc>>

\* write_throughput_report: shard s hands over a copy of its history.
Collect(s) ==
  /\ main = "report"
  /\ Deliver(s, "main")
  /\ mainWait' = mainWait \ {s}
  /\ UNCHANGED <<main, mainErr, exitVars, alive, proc>>

\* setup_reporter: a sleep, after which the timer is armed and the call
\* resolves.
SetupReporter(s) ==
  /\ main = "setup"
  /\ Deliver(s, "main")
  /\ UNCHANGED <<mainVars, exitVars, alive, proc>>

ReporterArmed(s) ==
  /\ proc = "up"
  /\ main = "setup"
  /\ s \in mainWait
  /\ mail[s] \in {<<>>, <<"exit">>}
  /\ mainWait' = mainWait \ {s}
  /\ UNCHANGED <<main, mainErr, exitVars, mail, alive, proc>>

-----------------------------------------------------------------------------
(* The exit tasks of the reactor. *)

\* Variant: the hook runs for every signal.
StartExitAgain ==
  /\ proc = "up"
  /\ exit \in {"idle", "stop"}
  /\ exit' = "stop"
  /\ IF main = "done"
       THEN UNCHANGED <<exitWait, mail>>
       ELSE exitWait' = Shards /\ Post("exit")
  /\ UNCHANGED <<mainVars, exitErr, alive, proc>>

\* The at_exit hook: stop() on every instance, none once the chain is done.
StartExit ==
  /\ proc = "up"
  /\ exit = "idle"
  /\ exit' = "stop"
  /\ IF main = "done"
       THEN UNCHANGED <<exitWait, mail>>
       ELSE exitWait' = Shards /\ Post("exit")
  /\ UNCHANGED <<mainVars, exitErr, alive, proc>>

\* SIGINT or SIGTERM.
Interrupt == main \notin Finished /\ StartExit

\* The chain has ended by itself and app.run leaves the reactor.
ExitAfterMain == main \in Finished /\ StartExit

\* The hook finds no instance on shard s: the call fails.
ExitMissesInstance(s) ==
  /\ ~alive[s]
  /\ Deliver(s, "exit")
  /\ exitWait' = exitWait \ {s}
  /\ exitErr' = TRUE
  /\ UNCHANGED <<mainVars, exit, alive, proc>>

\* A failed exit task ends the sequence of exit tasks before the reactor
\* has been told to stop.
ExitStuck ==
  /\ proc = "up"
  /\ exit = "stop" /\ exitWait = {} /\ exitErr
  /\ exit' = "stuck"
  /\ UNCHANGED <<mainVars, exitWait, exitErr, mail, alive, proc>>

\* The last exit task waits for the chain of main().  Then the process ends
\* and destroys the sharded<>, which must have been stopped.
ExitDone ==
  /\ proc = "up"
  /\ exit = "stop" /\ exitWait = {} /\ ~exitErr
  /\ main \in Finished
  /\ proc' = IF main = "done" THEN "exited" ELSE "sharded_assert"
  /\ UNCHANGED <<mainVars, exitVars, mail, alive>>

\* The steps every program takes; Interrupt is the environment's.
AppNext ==
  \/ MainThen \/ MainDone \/ ExitAfterMain \/ ExitStuck \/ ExitDone
  \/ \E s \in Shards : SetupReporter(s) \/ ReporterArmed(s) \/ Collect(s) \/ Destroy(s)

-----------------------------------------------------------------------------
(* What a process can still do by itself, without a signal or a peer. *)

ChainMoves == main \in DOMAIN Following \cup {"clear"} /\ mainWait = {}
TimerWaits == main = "setup" /\ \E s \in mainWait : mail[s] \in {<<>>, <<"exit">>}
CallWaits  == \E s \in Shards : mail[s] # <<>>
ExitMoves ==
  \/ main \in Finished /\ exit = "idle"
  \/ exit = "stop" /\ exitWait = {} /\ (exitErr \/ main \in Finished)
=============================================================================
