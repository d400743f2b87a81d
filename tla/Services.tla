------------------------------- MODULE Services -------------------------------
(* reflect/ServiceManagerHelper: the services that the service manager lists   *)
(* are described one after the other, or the object of one is fetched, while   *)
(* services die and come back. A binder refers to one life of its service and  *)
(* is dead for ever after it.                                                  *)
EXTENDS Integers, Sequences, FiniteSets, SequencesExt

CONSTANTS ServiceNames,
          InJava,        \* services whose interface is a class the tracker finds
          MaxLives,      \* bound of the model: lives of a service
          MaxStubs,      \* bound of the model: stubs asked for with serviceDead
          NoBinder, NoInfo

ASSUME ServicesAssumption ==
    /\ IsFiniteSet(ServiceNames)
    /\ NoBinder \notin [service : ServiceNames, life : Nat]

VARIABLES mpc,          \* where the thread of main is in the helper
          life,         \* the life of each service; even when it has ended
          listed,       \* serviceStrs
          infos,        \* metadataList
          binder,       \* what getServiceInterface returned
          ended,        \* history: services that died since they were listed
          stubs,        \* per call: the binder of the stub that was returned
          recipients,   \* per call: the binder linked to its death recipient
          serviceDead   \* per call: the flag

callVars == <<stubs, recipients, serviceDead>>
mvars == <<mpc, life, listed, infos, binder, ended, callVars>>

Runs(s) == life[s] % 2 = 1
Alive(b) == Runs(b.service) /\ life[b.service] = b.life
CallNumber == Len(stubs)

MInit ==
    /\ mpc = "idle" /\ life \in [ServiceNames -> {0, 1}]
    /\ listed = <<>> /\ infos = <<>> /\ binder = NoBinder /\ ended = {}
    /\ stubs = <<>> /\ recipients = <<>> /\ serviceDead = <<>>

MGoto(from, to) == mpc = from /\ mpc' = to

\* managerBinderRef.getService: no binder for a service that does not run, or
\* that of its last life until the service manager hears of its end.
GetService(s) ==
    IF Runs(s) THEN {[service |-> s, life |-> life[s]]}
    ELSE {NoBinder} \union (IF life[s] = 0 THEN {} ELSE {[service |-> s, life |-> life[s] - 1]})
-----------------------------------------------------------------------------
\* parseAllServiceInfo

\* The service manager names those that run, in an order of its own.
ListServices ==
    /\ MGoto("idle", "next")
    /\ listed' \in SetToSeqs({s \in ServiceNames : Runs(s)})
    /\ ended' = {}
    /\ UNCHANGED <<life, infos, binder, callVars>>

Following == listed[Len(infos) + 1]

\* Only null goes unnoticed: describing it, getClass throws a
\* NullPointerException that nobody catches.
GetListed ==
    /\ mpc = "next" /\ Len(infos) < Len(listed)
    /\ \E b \in GetService(Following) :
        /\ binder' = b
        /\ mpc' = IF b = NoBinder THEN "thrown" ELSE "describe"
    /\ UNCHANGED <<life, listed, infos, ended, callVars>>

\* Any exception of getServiceInterface: "not registered", and null is added.
Refused ==
    /\ MGoto("next", "next") /\ Len(infos) < Len(listed)
    /\ infos' = Append(infos, NoInfo)
    /\ UNCHANGED <<life, listed, binder, ended, callVars>>

\* Mutant: whoever has a descriptor passes for Java.
DescribeByDescriptor ==
    /\ MGoto("describe", "next")
    /\ infos' = Append(infos, [name |-> binder.service,
                               type |-> IF Alive(binder) THEN "Java" ELSE "Native"])
    /\ binder' = NoBinder
    /\ UNCHANGED <<life, listed, ended, callVars>>

\* getInterfaceDescriptor asks the service itself: one that is dead passes for
\* native, as one without a class of that name does.
DescribeService ==
    /\ MGoto("describe", "next")
    /\ infos' = Append(infos, [name |-> binder.service,
                               type |-> IF Alive(binder) /\ binder.service \in InJava
                                        THEN "Java" ELSE "Native"])
    /\ binder' = NoBinder
    /\ UNCHANGED <<life, listed, ended, callVars>>

Parsed ==
    /\ MGoto("next", "done") /\ Len(infos) = Len(listed)
    /\ UNCHANGED <<life, listed, infos, binder, ended, callVars>>
-----------------------------------------------------------------------------
\* getServiceStub, with a flag for the service's death

GetStub(s) ==
    /\ mpc = "idle" /\ CallNumber < MaxStubs
    /\ \E b \in GetService(s) :
        /\ binder' = b
        /\ mpc' = IF b = NoBinder THEN "idle" ELSE "link"
    /\ stubs' = Append(stubs, NoBinder)
    /\ recipients' = Append(recipients, NoBinder)
    /\ serviceDead' = Append(serviceDead, FALSE)
    /\ UNCHANGED <<life, listed, infos, ended>>

\* Mutant: the recipient is not linked.
NothingLinked ==
    /\ MGoto("link", "stub") /\ Alive(binder)
    /\ UNCHANGED <<life, listed, infos, binder, ended, callVars>>

LinkToDeath ==
    /\ MGoto("link", "stub") /\ Alive(binder)
    /\ recipients' = [recipients EXCEPT ![CallNumber] = binder]
    /\ UNCHANGED <<life, listed, infos, binder, ended, stubs, serviceDead>>

\* The service itself names its interface, and there is such a class.
AskDescriptor ==
    /\ MGoto("stub", "make") /\ Alive(binder) /\ binder.service \in InJava
    /\ UNCHANGED <<life, listed, infos, binder, ended, callVars>>

\* Its $Stub turns the binder into an object, without asking anyone.
AsInterface ==
    /\ MGoto("make", "idle")
    /\ stubs' = [stubs EXCEPT ![CallNumber] = binder]
    /\ binder' = NoBinder
    /\ UNCHANGED <<life, listed, infos, ended, recipients, serviceDead>>

\* RemoteException of a dead binder, or there is no such class. A recipient
\* that was linked stays so.
StubFails ==
    /\ mpc \in {"link", "stub"} /\ mpc' = "idle"
    /\ ~Alive(binder) \/ (mpc = "stub" /\ binder.service \notin InJava)
    /\ binder' = NoBinder
    /\ UNCHANGED <<life, listed, infos, ended, callVars>>

\* A binder thread: each recipient has the flag of its own call.
BinderDied(c) ==
    /\ c \in DOMAIN recipients /\ recipients[c] # NoBinder /\ ~Alive(recipients[c])
    /\ serviceDead' = [serviceDead EXCEPT ![c] = TRUE]
    /\ recipients' = [recipients EXCEPT ![c] = NoBinder]
    /\ UNCHANGED <<mpc, life, listed, infos, binder, ended, stubs>>
-----------------------------------------------------------------------------
\* The services

ServiceDies(s) ==
    /\ Runs(s)
    /\ life' = [life EXCEPT ![s] = @ + 1]
    /\ ended' = ended \union {s}
    /\ UNCHANGED <<mpc, listed, infos, binder, callVars>>

ServiceStarts(s) ==
    /\ ~Runs(s) /\ life[s] < 2 * MaxLives - 1
    /\ life' = [life EXCEPT ![s] = @ + 1]
    /\ UNCHANGED <<mpc, listed, infos, binder, ended, callVars>>

MNext ==
    \/ ListServices \/ GetListed \/ Refused \/ DescribeService \/ Parsed
    \/ LinkToDeath \/ AskDescriptor \/ AsInterface \/ StubFails
    \/ \E s \in ServiceNames : GetStub(s) \/ ServiceDies(s) \/ ServiceStarts(s)
    \/ \E c \in 1..MaxStubs : BinderDied(c)

\* Binder threads deliver what the driver has for them.
MFairness == \A c \in 1..MaxStubs : WF_mvars(BinderDied(c))

MSpec == MInit /\ [][MNext]_mvars /\ MFairness
-----------------------------------------------------------------------------
\* The descriptions are those of the services listed, in their order. One says
\* Java of Java services only, and Native of a Java service only if that died
\* meanwhile; nothing else ends the list before its time.
DescriptionsTell ==
    /\ Len(infos) <= Len(listed)
    /\ \A i \in DOMAIN infos :
          infos[i] # NoInfo =>
            /\ infos[i].name = listed[i]
            /\ infos[i].type = "Java" => listed[i] \in InJava
            /\ infos[i].type = "Native" /\ listed[i] \in InJava => listed[i] \in ended
    /\ mpc = "thrown" => Following \in ended

\* Who was given a stub with a flag hears of the end of its service, also when
\* that came before the stub was made and whoever asked again since.
DeathsHeard ==
    \A c \in 1..MaxStubs :
        (c \in DOMAIN stubs /\ stubs[c] # NoBinder /\ ~Alive(stubs[c]))
          ~> (c \in DOMAIN stubs /\ serviceDead[c])
=============================================================================
