------------------------- MODULE MethodHandleLinkage -------------------------
(***************************************************************************)
(* Linkage of signature-polymorphic methods (linkResolver.cpp, JSR 292).  *)
(* MethodHandle.invokeExact, invoke, invokeBasic and linkToStatic are     *)
(* declared native in MethodHandle; lookup_method_in_klasses never links   *)
(* them directly, and lookup_polymorphic_method produces a synthetic      *)
(* method instead:                                                         *)
(*   - for the intrinsics (invokeBasic, linkToStatic), the method of the  *)
(*     process-wide table keyed by the intrinsic and the erased basic      *)
(*     signature (SystemDictionary::find_method_handle_intrinsic), which    *)
(*     any thread may create;                                              *)
(*   - for invokeExact and invoke, an invoker and an appendix spun by a   *)
(*     Java up-call (SystemDictionary::find_method_handle_invoker), which *)
(*     only a Java thread resolving an invokehandle may make.              *)
(* Java threads reach it through resolve_invokehandle (resolve_handle_   *)
(* call) or, for linkToStatic and ordinary methods, through resolve_     *)
(* method; compiler threads through resolve_method_statically, which     *)
(* first takes what the call site's constant-pool cache entry holds.     *)
(*                                                                         *)
(* SystemDictionary, MethodHandles and the constant-pool cache are outside *)
(* this repository.  They are written from spec sections 4.5 and 5: the  *)
(* intrinsic table is shared by all signatures that erase alike; an       *)
(* intrinsic is created outside the lock and installed under it, a losing *)
(* creator taking the winner's; a cache entry is published at most once.  *)
(***************************************************************************)
EXTENDS Integers, Sequences, FiniteSets

CONSTANTS
  JavaThreads,
  CompilerThreads,
  Sites,      \* call sites: [klass, name, sig, caller], caller the current class's package
  MayFail,    \* whether allocation, class loading and the Java up-call may throw
  NoMethod

Threads == JavaThreads \cup CompilerThreads

MH == "java.lang.invoke.MethodHandle"
JLI == "java.lang.invoke"
RefTypes == {"Object", "String", "MemberName"}
None == "none"
NoEntry == [m |-> NoMethod, appendix |-> None]

VARIABLES
  natives,     \* MethodHandleNatives: "unloaded", "loaded" or "initialized"
  intrinsics,  \* SystemDictionary's invoke method table: a set of [key, m]
  cpCache,     \* [Sites -> the published [m, appendix], or NoEntry]
  req,         \* the call site each thread resolves
  via,         \* "handle" (resolve_handle_call) or "method" (resolve_method)
  pc,
  cand,        \* the intrinsic a thread is creating: its key, then the method
  res          \* each thread's outcome; seen is a record only: the site's
               \* cache entry when a compiler thread began resolving it

mhVars == <<natives, intrinsics, cpCache, req, via, pc, cand, res>>

-----------------------------------------------------------------------------
(* MethodHandles::signature_polymorphic_name_id and the intrinsic tests. *)
SignaturePolymorphicNameId(name) ==
  CASE name \in {"invokeExact", "invoke"} -> "_invokeGeneric"
    [] name = "invokeBasic"               -> "_invokeBasic"
    [] name = "linkToStatic"              -> "_linkToStatic"
    [] OTHER                              -> "_none"

IsSignaturePolymorphicIntrinsic(iid) == iid \in {"_invokeBasic", "_linkToStatic"}
IsSignaturePolymorphicStatic(iid) == iid = "_linkToStatic"

(* MethodHandles::lookup_basic_type_signature: each reference parameter  *)
(* becomes Object, except the last one when keepLastArg.                 *)
LookupBasicTypeSignature(sig, keepLastArg) ==
  [i \in DOMAIN sig |->
     IF sig[i] \in RefTypes /\ ~(keepLastArg /\ i = Len(sig)) THEN "Object" ELSE sig[i]]

(* lookup_polymorphic_method: linkToStatic keeps its trailing MemberName. *)
KeepLastArgNever(iid) == FALSE
KeepLastArg(iid) == IsSignaturePolymorphicStatic(iid)

IntrinsicKey(s) ==
  LET iid == SignaturePolymorphicNameId(s.name) IN
  <<iid, LookupBasicTypeSignature(s.sig, KeepLastArg(iid))>>

(* The methods: the declared natives of MethodHandle, methods of other  *)
(* classes, intrinsics made by methodOopDesc::make_method_handle_intrinsic *)
(* (final native synthetic, not public) and invokers spun in Java.        *)
Declared(s) == IF s.klass = MH THEN [kind |-> "native", name |-> s.name]
               ELSE [kind |-> "declared", klass |-> s.klass, name |-> s.name]
Intrinsic(key, t) == [kind |-> "intrinsic", iid |-> key[1], sig |-> key[2], by |-> t]
Invoker(s, t) == [kind |-> "invoker", name |-> s.name, sig |-> s.sig, by |-> t]

(* lookup_method_in_klasses: a signature-polymorphic method is skipped. *)
LookupMethodInKlassesDirect(s) == Declared(s)

LookupMethodInKlasses(s) ==
  IF Declared(s).kind = "native" /\ SignaturePolymorphicNameId(s.name) # "_none"
  THEN NoMethod ELSE Declared(s)

(* check_method_accessability through Reflection::verify_field_access:  *)
(* the methods of other classes are public; an intrinsic is             *)
(* package-private in java.lang.invoke.                                  *)
CheckMethodAccessability(s, m) == m.kind = "declared" \/ s.caller = JLI

-----------------------------------------------------------------------------
Outcome(err, m, app, cause, seen) == [err |-> err, m |-> m, appendix |-> app, cause |-> cause, seen |-> seen]
NoOutcome == Outcome(None, NoMethod, None, None, NoEntry)

MHInit ==
  /\ natives = "unloaded"
  /\ intrinsics = {}
  /\ cpCache = [s \in Sites |-> NoEntry]
  /\ req = [t \in Threads |-> CHOOSE s \in Sites : TRUE]
  /\ via = [t \in Threads |-> None]
  /\ pc = [t \in Threads |-> "idle"]
  /\ cand = [t \in Threads |-> None]
  /\ res = [t \in Threads |-> NoOutcome]

Goto(t, p) == pc' = [pc EXCEPT ![t] = p]

(***************************************************************************)
(* The thread's outcome, once the method is known (m, appendix), or the   *)
(* exception exc lookup_polymorphic_method threw:                          *)
(*   - resolve_handle_call propagates exc, and checks access for an       *)
(*     intrinsic only;                                                     *)
(*   - resolve_method keeps exc as the cause of NoSuchMethodError when no *)
(*     method was found, then checks access (the loader constraints of    *)
(*     these boot-loader classes always hold).                             *)
(* The interpreter then publishes a Java thread's result in the call       *)
(* site's cache entry unless another thread did first.                     *)
(***************************************************************************)
(* resolve_handle_call returns without linking when the lookup threw    *)
(* (CHECK); a mutant that dropped it would link no method at all.        *)
LinkErrorIgnoresException(t, m, exc) ==
  IF via[t] = "handle"
  THEN IF m # NoMethod /\ m.kind = "intrinsic" /\ ~CheckMethodAccessability(req[t], m)
       THEN "IllegalAccessError" ELSE None
  ELSE CASE m = NoMethod                          -> "NoSuchMethodError"
         [] ~CheckMethodAccessability(req[t], m) -> "IllegalAccessError"
         [] OTHER                                -> None

LinkError(t, m, exc) ==
  IF via[t] = "handle"
  THEN CASE exc # None                                                       -> exc
         [] m.kind = "intrinsic" /\ ~CheckMethodAccessability(req[t], m) -> "IllegalAccessError"
         [] OTHER                                                           -> None
  ELSE CASE m = NoMethod                          -> "NoSuchMethodError"
         [] ~CheckMethodAccessability(req[t], m) -> "IllegalAccessError"
         [] OTHER                                -> None

Finish(t, m, app, exc) ==
  LET s   == req[t]
      err == LinkError(t, m, exc)
      out == IF err = None THEN Outcome(None, m, app, None, res[t].seen)
             ELSE Outcome(err, NoMethod, None,
                          IF err = "NoSuchMethodError" THEN exc ELSE None, res[t].seen)
  IN  /\ res' = [res EXCEPT ![t] = out]
      /\ cpCache' = IF t \in JavaThreads /\ err = None /\ cpCache[s] = NoEntry
                    THEN [cpCache EXCEPT ![s] = [m |-> m, appendix |-> app]]
                    ELSE cpCache
      /\ Goto(t, "done")

(* A Java thread executes the site's bytecode: an invokevirtual of       *)
(* MethodHandle.invokeExact, invoke or invokeBasic has been rewritten to *)
(* invokehandle; linkToStatic is an invokestatic.  A compiler thread resolves *)
(* the site statically.                                                   *)
Start(t) ==
  /\ pc[t] = "idle"
  /\ \E s \in Sites :
       /\ req' = [req EXCEPT ![t] = s]
       /\ res' = [res EXCEPT ![t].seen = IF t \in CompilerThreads THEN cpCache[s] ELSE NoEntry]
       /\ IF t \in CompilerThreads THEN via' = [via EXCEPT ![t] = "method"] /\ Goto(t, "statically")
          ELSE IF s.klass = MH /\ s.name \in {"invokeExact", "invoke", "invokeBasic"}
          THEN via' = [via EXCEPT ![t] = "handle"] /\ Goto(t, "poly")
          ELSE via' = [via EXCEPT ![t] = "method"] /\ Goto(t, "method")
  /\ UNCHANGED <<natives, intrinsics, cpCache, cand>>

(* resolve_method_statically: a signature-polymorphic site takes the     *)
(* method its cache entry holds (method_at_if_loaded); otherwise, and     *)
(* for every other site, resolve_method.                                  *)
ResolveMethodStaticallyNoPreresolution(t) ==
  /\ pc[t] = "statically"
  /\ Goto(t, "method")
  /\ UNCHANGED <<natives, intrinsics, cpCache, req, via, cand, res>>

ResolveMethodStatically(t) ==
  /\ pc[t] = "statically"
  /\ LET s == req[t] IN
     IF s.klass = MH /\ SignaturePolymorphicNameId(s.name) # "_none" /\ cpCache[s] # NoEntry
     THEN /\ res' = [res EXCEPT ![t] = Outcome(None, cpCache[s].m, None, None, res[t].seen)]
          /\ Goto(t, "done")
     ELSE UNCHANGED res /\ Goto(t, "method")
  /\ UNCHANGED <<natives, intrinsics, cpCache, req, via, cand>>

(* resolve_method: the class hierarchy (MethodHandle implements no       *)
(* interface), then lookup_polymorphic_method without an appendix.       *)
ResolveMethod(t) ==
  /\ pc[t] = "method"
  /\ LET m == LookupMethodInKlasses(req[t]) IN
     IF m # NoMethod THEN Finish(t, m, None, None)
     ELSE Goto(t, "poly") /\ UNCHANGED <<res, cpCache>>
  /\ UNCHANGED <<natives, intrinsics, req, via, cand>>

(***************************************************************************)
(* lookup_polymorphic_method.  An intrinsic is looked up in the table     *)
(* under the lock.  invokeGeneric goes to Java only on a Java thread that *)
(* passed an appendix slot (resolve_handle_call); otherwise no method.    *)
(***************************************************************************)
LookupPolymorphicMethod(t) ==
  /\ pc[t] = "poly"
  /\ LET s   == req[t]
         iid == SignaturePolymorphicNameId(s.name)
         hit == {e \in intrinsics : e.key = IntrinsicKey(s)}
     IN  IF s.klass = MH /\ IsSignaturePolymorphicIntrinsic(iid)
         THEN IF hit # {} THEN Finish(t, (CHOOSE e \in hit : TRUE).m, None, None) /\ UNCHANGED cand
              ELSE /\ cand' = [cand EXCEPT ![t] = IntrinsicKey(s)]
                   /\ Goto(t, "make") /\ UNCHANGED <<res, cpCache>>
         ELSE IF s.klass = MH /\ iid = "_invokeGeneric" /\ t \in JavaThreads /\ via[t] = "handle"
         THEN Goto(t, "natives") /\ UNCHANGED <<res, cpCache, cand>>
         ELSE Finish(t, NoMethod, None, None) /\ UNCHANGED cand
  /\ UNCHANGED <<natives, intrinsics, req, via>>

(* make_method_handle_intrinsic, outside the lock; it may run out of memory. *)
MakeIntrinsic(t) ==
  /\ pc[t] = "make"
  /\ \/ /\ cand' = [cand EXCEPT ![t] = Intrinsic(cand[t], t)]
        /\ Goto(t, "install") /\ UNCHANGED <<res, cpCache>>
     \/ MayFail /\ Finish(t, NoMethod, None, "OutOfMemoryError") /\ UNCHANGED cand
  /\ UNCHANGED <<natives, intrinsics, req, via>>

(* Under the lock again: a racing thread's intrinsic wins over this one. *)
InstallIntrinsicOwn(t) ==
  /\ pc[t] = "install"
  /\ intrinsics' = intrinsics \cup {[key |-> <<cand[t].iid, cand[t].sig>>, m |-> cand[t]]}
  /\ Finish(t, cand[t], None, None)
  /\ UNCHANGED <<natives, req, via, cand>>

InstallIntrinsic(t) ==
  /\ pc[t] = "install"
  /\ LET key == <<cand[t].iid, cand[t].sig>>
         won == {e \in intrinsics : e.key = key}
     IN  IF won # {} THEN Finish(t, (CHOOSE e \in won : TRUE).m, None, None) /\ UNCHANGED intrinsics
         ELSE /\ intrinsics' = intrinsics \cup {[key |-> key, m |-> cand[t]]}
              /\ Finish(t, cand[t], None, None)
  /\ UNCHANGED <<natives, req, via, cand>>

(* Unless MethodHandles are enabled, load MethodHandleNatives when it is *)
(* not there (resolve_or_fail, which may throw).                          *)
EnsureNatives(t) ==
  /\ pc[t] = "natives"
  /\ \/ natives # "unloaded" /\ Goto(t, "upcall") /\ UNCHANGED <<natives, res, cpCache>>
     \/ /\ natives = "unloaded"
        /\ natives' = "loaded" /\ Goto(t, "upcall") /\ UNCHANGED <<res, cpCache>>
     \/ natives = "unloaded" /\ MayFail /\ Finish(t, NoMethod, None, "NoClassDefFoundError")
        /\ UNCHANGED natives
  /\ UNCHANGED <<intrinsics, req, via, cand>>

(* find_method_handle_invoker: MethodHandleNatives.linkMethod in Java,   *)
(* which initializes MethodHandleNatives; it may throw.                   *)
FindMethodHandleInvoker(t) ==
  /\ pc[t] = "upcall"
  /\ \/ natives' = "initialized" /\ Finish(t, Invoker(req[t], t), <<"appendix", t>>, None)
     \/ MayFail /\ Finish(t, NoMethod, None, "LinkageError") /\ UNCHANGED natives
  /\ UNCHANGED <<intrinsics, req, via, cand>>

MHDone == \A t \in Threads : pc[t] = "done"

MHStep(t) ==
  \/ Start(t) \/ ResolveMethodStatically(t) \/ ResolveMethod(t) \/ LookupPolymorphicMethod(t)
  \/ MakeIntrinsic(t) \/ InstallIntrinsic(t) \/ EnsureNatives(t) \/ FindMethodHandleInvoker(t)

MHNext == (\E t \in Threads : MHStep(t)) \/ (MHDone /\ UNCHANGED mhVars)

MHSpec == MHInit /\ [][MHNext]_mhVars

-----------------------------------------------------------------------------
(* The method JSR 292 links a site to: an invoker of the site's own      *)
(* signature for invokeExact and invoke; for invokeBasic and linkToStatic *)
(* the intrinsic of that name over the basic signature (every reference   *)
(* type Object, but linkToStatic's trailing MemberName), reachable from   *)
(* java.lang.invoke only; otherwise the method the class declares.        *)
BasicSignatureOf(s) ==
  [i \in DOMAIN s.sig |->
     CASE s.name = "linkToStatic" /\ i = Len(s.sig) -> s.sig[i]
       [] s.sig[i] = "int"                          -> "int"
       [] OTHER                                     -> "Object"]

LinksTo(m, s) ==
  CASE s.klass # MH -> m = [kind |-> "declared", klass |-> s.klass, name |-> s.name]
    [] s.name \in {"invokeExact", "invoke"} ->
         m.kind = "invoker" /\ m.name = s.name /\ m.sig = s.sig
    [] OTHER ->
         m.kind = "intrinsic" /\ m.iid = "_" \o s.name /\ m.sig = BasicSignatureOf(s)
         /\ s.caller = JLI

Linked(t) == pc[t] = "done" /\ res[t].err = None

(***************************************************************************)
(* Every method a thread links, and every method published in a call     *)
(* site's cache entry, is the one JSR 292 gives the site: lookup_method_  *)
(* in_klasses never links the declared native, lookup_polymorphic_method *)
(* erases the signature keeping linkToStatic's MemberName, and the access *)
(* check keeps intrinsics inside java.lang.invoke.  Two threads that link *)
(* intrinsics of one name and basic signature link the same method, even *)
(* when they created it concurrently (find_method_handle_intrinsic).      *)
(***************************************************************************)
LinkedMethodMatchesCallSite ==
  /\ \A t \in Threads : Linked(t) => LinksTo(res[t].m, req[t])
  /\ \A s \in Sites : cpCache[s] # NoEntry => LinksTo(cpCache[s].m, s)
  /\ \A t, u \in Threads :
       /\ Linked(t) /\ Linked(u)
       /\ res[t].m.kind = "intrinsic" /\ res[u].m.kind = "intrinsic"
       /\ res[t].m.iid = res[u].m.iid /\ res[t].m.sig = res[u].m.sig
       => res[t].m = res[u].m

(***************************************************************************)
(* The compiler and the interpreter agree on a signature-polymorphic     *)
(* site (resolve_method_statically): a method the compiler links is the   *)
(* one the interpreter has published there, if it has; and a site the    *)
(* interpreter had already linked when the compiler began resolving it   *)
(* is never a linkage error to the compiler, although the compiler cannot *)
(* spin an invoker itself.                                                *)
(***************************************************************************)
CompilerAgreesWithInterpreter ==
  \A t \in CompilerThreads :
    LET s == req[t] IN
    pc[t] = "done" /\ s.klass = MH /\ SignaturePolymorphicNameId(s.name) # "_none" =>
      /\ res[t].err = None /\ cpCache[s] # NoEntry => res[t].m = cpCache[s].m
      /\ res[t].seen # NoEntry => res[t].err = None

(* The variables' types. *)
MHTypeOK ==
  /\ natives \in {"unloaded", "loaded", "initialized"}
  /\ pc \in [Threads -> {"idle", "statically", "method", "poly", "make", "install",
                         "natives", "upcall", "done"}]
  /\ req \in [Threads -> Sites]
  /\ via \in [Threads -> {None, "handle", "method"}]
  /\ \A e \in intrinsics : e.m.kind = "intrinsic" /\ e.key = <<e.m.iid, e.m.sig>>
  /\ \A t \in Threads : pc[t] = "done" => (res[t].err = None <=> res[t].m # NoMethod)

====
