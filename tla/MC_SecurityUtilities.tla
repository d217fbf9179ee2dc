------------------------ MODULE MC_SecurityUtilities -------------------------
(***************************************************************************)
(* The security and network utilities together: IPAddressUtil,           *)
(* HostnameChecker and ServerNameExtension share the call record last,   *)
(* and a CalendarBuilder lives between two of their calls.  The parts    *)
(* share no state, so one caller using one at a time reaches every state *)
(* of each part.                                                          *)
(*                                                                         *)
(* A run may instead start in stage "deps": three VM threads recording    *)
(* class loader dependencies (MC_LoaderDependencies), while the parts     *)
(* above stay in their initial states.  The two stages share nothing and *)
(* are checked in one run, each reaching the states it reaches alone.     *)
(* Stage "mh" likewise links signature-polymorphic call sites from two    *)
(* Java threads and a compiler thread (MethodHandleLinkage).               *)
(***************************************************************************)
EXTENDS MC_ServerNameExtension

VARIABLES builder, out, api, calls,
  stage, deps, ldpc, ldreq, ldok, ldlast,
  natives, intrinsics, cpCache, mhreq, via, mhpc, cand, res

CONSTANTS LdNull, MhNoMethod

LocaleUS == [language |-> "en", country |-> "US", ca |-> Null, firstDayOfWeek |-> 1, minimalDays |-> 1]
LocaleTH == [language |-> "th", country |-> "TH", ca |-> Null, firstDayOfWeek |-> 1, minimalDays |-> 1]

CB == INSTANCE CalendarBuilder WITH
  builder <- builder, out <- out, api <- api, calls <- calls,
  IntBits <- 4, DefaultLocale <- LocaleUS, DefaultZone <- "Default", MaxCalls <- 4,
  Values <- {0, 1}, Instants <- {5}, Zones <- {"GMT", "Default"}, Locales <- {LocaleTH},
  CalendarTypes <- {"gregorian", "iso8601", "julian"}, WeekParameters <- {2, 8}

LdDefs == INSTANCE MC_LoaderDependencies WITH
  pc <- ldpc, req <- ldreq, ok <- ldok, last <- ldlast,
  L1 <- "L1", L2 <- "L2", L3 <- "L3", T1 <- "T1", T2 <- "T2", T3 <- "T3",
  Loaders <- {}, NullLoader <- LdNull, ParentOf <- {}, Threads <- {}, Requests <- {},
  AllocMayFail <- TRUE, WeakMemory <- TRUE
LD == INSTANCE MC_LoaderDependencies WITH
  pc <- ldpc, req <- ldreq, ok <- ldok, last <- ldlast,
  L1 <- "L1", L2 <- "L2", L3 <- "L3", T1 <- "T1", T2 <- "T2", T3 <- "T3",
  Loaders <- LdDefs!MCLoaders, NullLoader <- LdNull, ParentOf <- LdDefs!MCParentOf,
  Threads <- LdDefs!MCThreads, Requests <- LdDefs!MCRequests,
  AllocMayFail <- TRUE, WeakMemory <- TRUE

(***************************************************************************)
(* Call sites of MethodHandle: invokeExact from an application class;    *)
(* invokeBasic over String from java.lang.invoke and over Object from the *)
(* application (both erase to one intrinsic); linkToStatic over String   *)
(* and over Object (one intrinsic, the MemberName kept); and a method    *)
(* named invokeExact in an ordinary class.                               *)
(***************************************************************************)
MhSites ==
  LET MH == "java.lang.invoke.MethodHandle"
      JLI == "java.lang.invoke"
  IN { [klass |-> MH, name |-> "invokeExact", sig |-> <<"String", "int">>, caller |-> "app"],
       [klass |-> MH, name |-> "invokeBasic", sig |-> <<"String">>, caller |-> JLI],
       [klass |-> MH, name |-> "invokeBasic", sig |-> <<"Object">>, caller |-> "app"],
       [klass |-> MH, name |-> "linkToStatic", sig |-> <<"String", "MemberName">>, caller |-> JLI],
       [klass |-> MH, name |-> "linkToStatic", sig |-> <<"Object", "MemberName">>, caller |-> JLI],
       [klass |-> "Other", name |-> "invokeExact", sig |-> <<"String", "int">>, caller |-> "app"] }

MHL == INSTANCE MethodHandleLinkage WITH
  req <- mhreq, pc <- mhpc,
  JavaThreads <- {"J1", "J2"}, CompilerThreads <- {"C1"}, Sites <- MhSites,
  MayFail <- TRUE, NoMethod <- MhNoMethod

ldVars == <<deps, ldpc, ldreq, ldok, ldlast>>
mhVars == <<natives, intrinsics, cpCache, mhreq, via, mhpc, cand, res>>
secVars == <<last, builder, out, api, calls, stage>>
allVars == <<secVars, ldVars, mhVars>>

SecInit == stage \in {"sec", "deps", "mh"} /\ Init /\ CB!CBInit /\ LD!Init /\ MHL!MHInit

LdStep(t) == stage = "deps" /\ LD!ThreadStep(t) /\ UNCHANGED <<secVars, mhVars>>

SecNext ==
  \/ stage = "sec" /\ builder = CB!NoBuilder /\ SNINext
     /\ UNCHANGED <<builder, out, api, calls, stage, ldVars, mhVars>>
  \/ stage = "sec" /\ last = NoCall /\ CB!CBNext /\ UNCHANGED <<last, stage, ldVars, mhVars>>
  \/ \E t \in LdDefs!MCThreads : LdStep(t)
  \/ stage = "deps" /\ LD!Terminated /\ UNCHANGED <<secVars, mhVars>>
  \/ stage = "mh" /\ MHL!MHNext /\ UNCHANGED <<secVars, ldVars>>

(* The OS schedules the recording threads fairly (see LoaderDependencies). *)
SecSpec == SecInit /\ [][SecNext]_allVars /\ \A t \in LdDefs!MCThreads : WF_allVars(LdStep(t))

(* The builder's fields, results and call count keep their types. *)
CBTypeOK == CB!CBTypeOK

(***************************************************************************)
(* CalendarBuilder.build, on a builder none of whose calls threw, gives  *)
(* the instant, or the last value of each field in the order written and *)
(* the week date when the week year came after the year.                 *)
(***************************************************************************)
BuildGivesRequestedCalendar == CB!BuildGivesRequestedCalendar

(* LoaderDependencies' type invariant: the walks stay on their lists. *)
LdTypeOK == LD!TypeOK

(***************************************************************************)
(* A thread that returned from record_dependency without an exception has *)
(* its dependency in the from-loader's list, whatever other threads did   *)
(* meanwhile, stale unlocked reads included (see LoaderDependencies).      *)
(***************************************************************************)
DependencyRecorded == LD!DependencyRecorded

(* The lists implement the set of dependencies (see LoaderDependencies). *)
ImplementsDependencySet == LD!ImplementsDependencySet

(* In a run that records dependencies, every thread eventually returns   *)
(* from record_dependency.                                                 *)
AllRecordingsReturn == stage = "deps" => LD!AllRecordingsReturn

(* MethodHandleLinkage's type invariant. *)
MHTypeOK == MHL!MHTypeOK

(***************************************************************************)
(* Each thread links a site to the method JSR 292 gives it, and threads  *)
(* that create one intrinsic concurrently end up with the same method    *)
(* (see MethodHandleLinkage).                                             *)
(***************************************************************************)
LinkedMethodMatchesCallSite == MHL!LinkedMethodMatchesCallSite

(* The compiler links a signature-polymorphic site to what the           *)
(* interpreter published there (see MethodHandleLinkage).                 *)
CompilerAgreesWithInterpreter == MHL!CompilerAgreesWithInterpreter

====
