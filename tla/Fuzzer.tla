-------------------------------- MODULE Fuzzer --------------------------------
(* testing/Fuzzer: run takes tests from a queue, executes them and puts what   *)
(* it makes of each back, while the service under test dies and comes back;    *)
(* handleDeath restores the instrumentation in a bounded number of trials. The *)
(* executor, the analyzer and the test are classes the repository does not     *)
(* have: here a test is a method with parameters, to fuzz it is to mutate      *)
(* them, and execution finds the service object live or dead.                  *)
EXTENDS ParametersGenerator

CONSTANTS TypesOf,         \* for each method, the types of its parameters
          MaxGeneration,   \* ConfigurationManager.getMaxGeneration()
          RestoreMaxTrial  \* ConfigurationManager.getRestoreMaxTrial()

Methods == DOMAIN TypesOf

ASSUME FuzzerAssumption ==
    /\ TypesOf \in Seq(Seq(TypeNames))
    /\ MaxGeneration \in Nat
    /\ RestoreMaxTrial \in Nat

VARIABLES fpc,         \* where run or handleDeath is
          experiment,  \* i
          queue,       \* the tests that wait
          test,        \* the test taken last
          trials,      \* the trial of handleDeath
          returnTo,    \* what follows handleDeath
          up,          \* the process of the service runs
          live         \* the callers hold the object of the service that runs

service == <<up, live>>
fvars == <<fpc, experiment, queue, test, trials, returnTo, up, live>>

FuzzerPC == {"fill", "take", "execute", "sleep", "getObject", "fuzz", "done"}
NoTest == [method |-> 0, parameters |-> <<>>]

FInit ==
    /\ fpc = "fill" /\ experiment = 0 /\ queue = <<>> /\ test = NoTest
    /\ trials = 0 /\ returnTo = "fuzz" /\ up = TRUE /\ live = TRUE

\* A test with random parameters for each method.
Fill ==
    /\ fpc = "fill"
    /\ IF Len(queue) < Len(TypesOf)
         THEN \E p \in ParametersRandom(TypesOf[Len(queue) + 1]) :
                /\ queue' = Append(queue, [method |-> Len(queue) + 1, parameters |-> p])
                /\ UNCHANGED fpc
         ELSE fpc' = "take" /\ UNCHANGED queue
    /\ UNCHANGED <<experiment, test, trials, returnTo, service>>

\* The head of the loop: the experiments are done, or no test is left.
Take ==
    /\ fpc = "take"
    /\ IF experiment < MaxGeneration /\ queue # <<>>
         THEN fpc' = "execute" /\ test' = Head(queue) /\ queue' = Tail(queue)
         ELSE fpc' = "done" /\ UNCHANGED <<test, queue>>
    /\ UNCHANGED <<experiment, trials, returnTo, service>>

HandleDeath(return) ==
    /\ fpc' = "sleep"
    /\ trials' = 1
    /\ returnTo' = return

\* The call does not kill the service.
Survive ==
    /\ fpc = "execute" /\ live
    /\ fpc' = "fuzz"
    /\ UNCHANGED <<experiment, queue, test, trials, returnTo, service>>

\* The test is a killer.
Kill ==
    /\ fpc = "execute" /\ live
    /\ up' = FALSE /\ live' = FALSE
    /\ HandleDeath("fuzz")
    /\ UNCHANGED <<experiment, queue, test>>

\* Mutant: the test that met a dead service is given up.
GiveUpTest ==
    /\ fpc = "execute" /\ ~live
    /\ HandleDeath("take")
    /\ UNCHANGED <<experiment, queue, test, service>>

\* The service died before: DeadServiceException. The test is analysed all the
\* same, and may pass for a killer: then handleDeath runs a second time.
FindDead ==
    /\ fpc = "execute" /\ ~live
    /\ \E isKiller \in BOOLEAN : HandleDeath(IF isKiller THEN "again" ELSE "fuzz")
    /\ UNCHANGED <<experiment, queue, test, service>>

\* initInstrumentation needs a process to inject into.
Restore ==
    /\ fpc = "sleep" /\ up
    /\ fpc' = "getObject"
    /\ UNCHANGED <<experiment, queue, test, trials, returnTo, service>>

\* Mutant: the trials are not counted.
RetryForEver ==
    /\ fpc = "sleep"
    /\ UNCHANGED fvars

\* InstrumentationException: trials++ <= max allows one trial more than max,
\* and after the last one "restored fuzzing" follows all the same.
FailToRestore ==
    /\ fpc = "sleep"
    /\ trials' = trials + 1
    /\ fpc' = IF trials <= RestoreMaxTrial THEN "sleep" ELSE "getObject"
    /\ UNCHANGED <<experiment, queue, test, returnTo, service>>

\* The callers get what the service manager has under the name.
GetObject ==
    /\ fpc = "getObject"
    /\ live' = up
    /\ IF returnTo = "again" THEN HandleDeath("fuzz") ELSE fpc' = returnTo /\ UNCHANGED <<trials, returnTo>>
    /\ UNCHANGED <<experiment, queue, test, up>>

\* InfiltrationException: run ends.
LoseService ==
    /\ fpc = "getObject" /\ ~up
    /\ fpc' = "done"
    /\ UNCHANGED <<experiment, queue, test, trials, returnTo, service>>

\* queue.add(test.fuzz()): a test that cannot be fuzzed is in the queue no more.
Fuzz ==
    /\ fpc = "fuzz"
    /\ \E r \in ParametersMutations(TypesOf[test.method], test.parameters) :
          queue' = IF r = Throws THEN queue
                   ELSE Append(queue, [method |-> test.method, parameters |-> r])
    /\ fpc' = "take"
    /\ experiment' = experiment + 1
    /\ UNCHANGED <<test, trials, returnTo, service>>

\* The service dies for another reason, and Android starts it again.
Die ==
    /\ up
    /\ up' = FALSE /\ live' = FALSE
    /\ UNCHANGED <<fpc, experiment, queue, test, trials, returnTo>>
Restart ==
    /\ ~up
    /\ up' = TRUE
    /\ UNCHANGED <<fpc, experiment, queue, test, trials, returnTo, live>>

FuzzerStep ==
    \/ Fill \/ Take \/ Survive \/ Kill \/ FindDead \/ Restore \/ FailToRestore
    \/ GetObject \/ LoseService \/ Fuzz

FNext ==
    \/ FuzzerStep
    \/ fpc # "done" /\ (Die \/ Restart)

\* The fuzzer runs on the thread of main, whose sleeps and calls end.
FSpec == FInit /\ [][FNext]_fvars /\ WF_fvars(FuzzerStep)
-----------------------------------------------------------------------------
HasTest(m) ==
    \/ \E i \in DOMAIN queue : queue[i].method = m
    \/ fpc \in {"execute", "sleep", "getObject", "fuzz"} /\ test.method = m

\* Known values that fit the slots they are put in: Integer 0 is no byte and a
\* box is not unboxed from null.
KnownFits(types) == \A i \in DOMAIN types : Fits(types[i], Known(types[i]))

\* A method whose known values fit is fuzzed to the end, through any deaths of
\* the service and failed restorations: its test is always in the queue or in
\* hand. (Others lose theirs when fuzz throws.)
KeepsFuzzing ==
    fpc \notin {"fill", "done"} =>
        \A m \in Methods : KnownFits(TypesOf[m]) => HasTest(m)

\* run ends, however often the service dies: the experiments are counted and
\* the trials of handleDeath are bounded.
FuzzingEnds == <>(fpc = "done")
=============================================================================
