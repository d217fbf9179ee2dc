---------------------------- MODULE LinkResolver ----------------------------
(***************************************************************************)
(* LinkResolver (hotspot/src/share/vm/interpreter/linkResolver.cpp):     *)
(* resolution of a constant-pool method reference for invokestatic,       *)
(* invokespecial, invokevirtual and invokeinterface, from one thread.      *)
(* Link-time resolution and run-time selection are pure reads of the      *)
(* registry (KlassHierarchy); the one state change is the initialization  *)
(* of the declaring class that resolve_static_call triggers.  The outcome *)
(* of the last resolution is kept in `last` so that properties can relate *)
(* it to the registry and to the initialization state.                    *)
(***************************************************************************)
EXTENDS KlassHierarchy

CONSTANTS
  Callers,              \* classes whose constant pool holds the reference
  AccSuperKlasses,      \* classes whose class file sets ACC_SUPER
  AllowNonVirtualCalls, \* the -XX flag of that name
  Null                  \* the null receiver

VARIABLES
  initState,   \* [Klasses -> ClassState], instanceKlass::_init_state
  clinitRuns,  \* [Klasses -> Nat], how often each <clinit> has been run
  last         \* the operation last resolved and its outcome

vars == <<decl, vtable, initState, clinitRuns, last>>

ClassStates == {"linked", "being_initialized", "fully_initialized", "initialization_error"}
Errors == {"IncompatibleClassChangeError", "NoSuchMethodError", "AbstractMethodError",
           "IllegalAccessError", "NullPointerException", "NoClassDefFoundError",
           "ExceptionInInitializerError", "VMCrash"}
ConcreteKlasses == Klasses \ (AbstractKlasses \cup InterfaceKlasses)

(* A resolution result: an error, or a method (NoMethod on error). *)
Ok(m)    == [err |-> "none", m |-> m]
Fail(e)  == [err |-> e, m |-> NoMethod]

(***************************************************************************)
(* Reflection::verify_field_access, the rule check_method_accessability   *)
(* applies to the selected method's flags.  A protected static member is *)
(* accessible from any subclass of its holder whatever the resolved class *)
(* (6622385); a field record carries its static flag, a method's is its   *)
(* kind.                                                                  *)
(***************************************************************************)
IsStaticMember(m) == IF "static" \in DOMAIN m THEN m.static ELSE IsStatic(m)

VerifyFieldAccess(cur, resolved, field, m) ==
  \/ cur = field
  \/ IsPublic(m)
  \/ /\ IsProtected(m)
     /\ IsSubclassOf(cur, field)
     /\ \/ IsStaticMember(m) \/ cur = resolved \/ field = resolved
        \/ IsSubclassOf(cur, resolved) \/ IsSubclassOf(resolved, cur)
  \/ ~IsPrivate(m) /\ PackageOf[cur] = PackageOf[field]

CheckMethodAccessability(cur, resolved, sel, m) == VerifyFieldAccess(cur, resolved, sel, m)

(***************************************************************************)
(* lookup_method_in_klasses, lookup_method_in_interfaces and              *)
(* lookup_instance_method_in_klasses.  The last skips a static match by   *)
(* continuing from the super of its holder; when that holder is Object    *)
(* its super is NULL and the handle is dereferenced anyway.               *)
(***************************************************************************)
LookupMethodInKlasses(k, n)    == UncachedLookupMethod(k, n)
LookupMethodInInterfaces(k, n) == LookupMethodInAllInterfaces(k, n)

(* Variant: the first declaration, static or not (lookup_method_in_klasses *)
(* where the instance lookup is needed).                                  *)
LookupInstanceMethodInKlassesWithStatic(k, n) == Ok(UncachedLookupMethod(k, n))

LookupInstanceMethodInKlasses(k, n) ==
  LET RECURSIVE Skip(_)
      Skip(m) == IF m = NoMethod \/ ~IsStatic(m) THEN Ok(m)
                 ELSE IF SuperOf[m.holder] = NoKlass THEN Fail("VMCrash")
                 ELSE Skip(UncachedLookupMethod(SuperOf[m.holder], n))
  IN Skip(UncachedLookupMethod(k, n))

(***************************************************************************)
(* resolve_method: class expected, search the class chain then the        *)
(* interfaces, reject an abstract method of a concrete class, then check  *)
(* access (loader constraints always agree: one defining loader).         *)
(***************************************************************************)
ResolveMethod(k, n, cur, checkAccess) ==
  IF k \in InterfaceKlasses THEN Fail("IncompatibleClassChangeError") ELSE
  LET inKlasses == LookupMethodInKlasses(k, n)
      m == IF inKlasses = NoMethod THEN LookupMethodInInterfaces(k, n) ELSE inKlasses
  IN IF m = NoMethod THEN Fail("NoSuchMethodError")
     ELSE IF IsAbstract(m) /\ k \notin AbstractKlasses THEN Fail("AbstractMethodError")
     ELSE IF checkAccess /\ ~CheckMethodAccessability(cur, k, m.holder, m)
          THEN Fail("IllegalAccessError")
     ELSE Ok(m)

(***************************************************************************)
(* resolve_interface_method: interface expected, then the interface and   *)
(* java.lang.Object (instance methods only), then its superinterfaces; no *)
(* access check.                                                          *)
(***************************************************************************)
ResolveInterfaceMethod(k, n, cur, checkAccess) ==
  IF k \notin InterfaceKlasses THEN Fail("IncompatibleClassChangeError") ELSE
  LET inKlasses == LookupInstanceMethodInKlasses(k, n)
      m == IF inKlasses.err = "none" /\ inKlasses.m = NoMethod
           THEN LookupMethodInInterfaces(k, n) ELSE inKlasses.m
  IN IF inKlasses.err # "none" THEN inKlasses
     ELSE IF m = NoMethod THEN Fail("NoSuchMethodError")
     ELSE Ok(m)

(* linktime_resolve_{static,special,virtual,interface}_method *)
LinktimeResolveStaticMethod(k, n, cur, checkAccess) ==
  LET r == ResolveMethod(k, n, cur, checkAccess)
  IN IF r.err = "none" /\ ~IsStatic(r.m) THEN Fail("IncompatibleClassChangeError") ELSE r

LinktimeResolveSpecialMethod(k, n, cur, checkAccess) ==
  LET r == ResolveMethod(k, n, cur, checkAccess)
  IN IF r.err # "none" THEN r
     ELSE IF n = "<init>" /\ r.m.holder # k THEN Fail("NoSuchMethodError")
     ELSE IF IsStatic(r.m) THEN Fail("IncompatibleClassChangeError")
     ELSE r

LinktimeResolveVirtualMethod(k, n, cur, checkAccess) ==
  LET r == ResolveMethod(k, n, cur, checkAccess)
  IN IF r.err = "none" /\ IsStatic(r.m) THEN Fail("IncompatibleClassChangeError") ELSE r

LinktimeResolveInterfaceMethod(k, n, cur, checkAccess) ==
  ResolveInterfaceMethod(k, n, cur, checkAccess)


(***************************************************************************)
(* CallInfo: the selected method and the vtable index (set_static,       *)
(* set_virtual, set_interface; set_common's signature assertion holds     *)
(* because every lookup is by name+signature).                           *)
(***************************************************************************)
Call(m, idx)  == [err |-> "none", m |-> m, index |-> idx]
CallFail(e)   == [err |-> e, m |-> NoMethod, index |-> InvalidIndex]

SetStatic(m) == Call(m, NonVirtualIndex)
SetInterface(r, sel) ==
  Call(sel, IF r.holder = ObjectKlass THEN VtableIndex(r) ELSE InvalidIndex)

(***************************************************************************)
(* runtime_resolve_special_method: an old-style super call (ACC_SUPER or  *)
(* non-virtual calls disallowed, method in a strict superclass, not       *)
(* <init>) is looked up again from the caller's direct superclass.        *)
(***************************************************************************)
RuntimeResolveSpecialMethod(r, k, cur, checkAccess) ==
  LET superCall == /\ checkAccess
                   /\ cur \in AccSuperKlasses \/ ~AllowNonVirtualCalls
                   /\ IsSubtypeOf(cur, r.holder) /\ cur # r.holder
                   /\ r.name # "<init>"
      s == IF superCall THEN LookupInstanceMethodInKlasses(SuperOf[cur], r.name) ELSE Ok(r)
  IN IF s.err # "none" THEN CallFail(s.err)
     ELSE IF s.m = NoMethod THEN CallFail("AbstractMethodError")
     ELSE IF IsStatic(s.m) THEN CallFail("IncompatibleClassChangeError")
     ELSE IF IsAbstract(s.m) THEN CallFail("AbstractMethodError")
     ELSE SetStatic(s.m)

(***************************************************************************)
(* runtime_resolve_virtual_method: a method declared by an interface (a   *)
(* miranda) takes its index from the resolved class's vtable; otherwise   *)
(* the method's own vtable index, unless it is statically bound.  The     *)
(* selected method is the receiver class's vtable entry at that index;    *)
(* an index outside the table reads memory that is not a vtable entry.    *)
(***************************************************************************)
RuntimeResolveVirtualMethod(r, k, recv, recvKlass, checkNullAndAbstract) ==
  IF checkNullAndAbstract /\ recv = Null THEN CallFail("NullPointerException") ELSE
  LET miranda == r.holder \in InterfaceKlasses
      idx == IF miranda THEN IndexOfMiranda(k, r.name) ELSE VtableIndex(r)
      vt  == vtable[recvKlass]
  IN IF ~miranda /\ idx = NonVirtualIndex THEN Call(r, idx)
     ELSE IF idx \notin 1..Len(vt) THEN CallFail("VMCrash")
     ELSE IF checkNullAndAbstract /\ IsAbstract(vt[idx]) THEN CallFail("AbstractMethodError")
     ELSE Call(vt[idx], idx)

(***************************************************************************)
(* runtime_resolve_interface_method: the receiver class must implement    *)
(* the interface; the instance method found from the receiver class must  *)
(* be public and, when checked, not abstract.                             *)
(***************************************************************************)
(* Variant: a receiver class without the method is set up as a call to NULL. *)
RuntimeResolveInterfaceMethodNoNullCheck(r, k, recv, recvKlass, checkNullAndAbstract) ==
  IF checkNullAndAbstract /\ recv = Null THEN CallFail("NullPointerException")
  ELSE IF ~IsSubtypeOf(recvKlass, k) THEN CallFail("IncompatibleClassChangeError") ELSE
  LET s == LookupInstanceMethodInKlasses(recvKlass, r.name)
  IN IF s.err # "none" THEN CallFail(s.err)
     ELSE IF s.m = NoMethod THEN SetInterface(r, NoMethod)
     ELSE IF ~IsPublic(s.m) THEN CallFail("IllegalAccessError")
     ELSE IF checkNullAndAbstract /\ IsAbstract(s.m) THEN CallFail("AbstractMethodError")
     ELSE SetInterface(r, s.m)

RuntimeResolveInterfaceMethod(r, k, recv, recvKlass, checkNullAndAbstract) ==
  IF checkNullAndAbstract /\ recv = Null THEN CallFail("NullPointerException")
  ELSE IF ~IsSubtypeOf(recvKlass, k) THEN CallFail("IncompatibleClassChangeError") ELSE
  LET s == LookupInstanceMethodInKlasses(recvKlass, r.name)
  IN IF s.err # "none" THEN CallFail(s.err)
     ELSE IF s.m = NoMethod THEN CallFail("AbstractMethodError")
     ELSE IF ~IsPublic(s.m) THEN CallFail("IllegalAccessError")
     ELSE IF checkNullAndAbstract /\ IsAbstract(s.m) THEN CallFail("AbstractMethodError")
     ELSE SetInterface(r, s.m)

(***************************************************************************)
(* resolve_{special,virtual,interface}_call: link-time resolution, then   *)
(* run-time selection.                                                    *)
(***************************************************************************)
ResolveSpecialCall(r, k, cur, checkAccess) ==
  IF r.err # "none" THEN CallFail(r.err)
  ELSE RuntimeResolveSpecialMethod(r.m, k, cur, checkAccess)

ResolveVirtualCall(r, recv, recvKlass, k, checkNullAndAbstract) ==
  IF r.err # "none" THEN CallFail(r.err)
  ELSE RuntimeResolveVirtualMethod(r.m, k, recv, recvKlass, checkNullAndAbstract)

ResolveInterfaceCall(r, recv, recvKlass, k, checkNullAndAbstract) ==
  IF r.err # "none" THEN CallFail(r.err)
  ELSE RuntimeResolveInterfaceMethod(r.m, k, recv, recvKlass, checkNullAndAbstract)

(***************************************************************************)
(* Class initialization as resolve_static_call drives it (instanceKlass:: *)
(* should_be_initialized and initialize).  Initializing k first           *)
(* initializes its uninitialized superclasses, top down; a class already  *)
(* in the error state fails with NoClassDefFoundError without running its *)
(* initializer, a failing <clinit> leaves its class and every class below *)
(* it on the chain in the error state.  Any initializer may throw.        *)
(***************************************************************************)
(* Variant: only a class never initialized is initialized again. *)
ShouldBeInitializedLinkedOnly(k) == initState[k] = "linked"

ShouldBeInitialized(k) == initState[k] # "fully_initialized"

(* The classes of k's superclass chain still to initialize, top down. *)
PendingInits(k) == SelectSeq(Reverse(SuperChain[k]), LAMBDA c : initState[c] # "fully_initialized")

(* The position of the first of them whose earlier initialization failed. *)
FirstErroneous(p) == SelectInSeq(p, LAMBDA c : initState[c] = "initialization_error")

InitializeOutcomes(k) ==
  LET p      == PendingInits(k)
      Pos(c) == SelectInSeq(p, LAMBDA x : x = c)
      e      == FirstErroneous(p)
      top    == IF e = 0 THEN Len(p) ELSE e - 1
      Outcome(f) ==   \* f: the first initializer that throws, 0 for none
        LET stop == IF f # 0 THEN f ELSE IF e # 0 THEN e ELSE Len(p) + 1
            ran  == IF f # 0 THEN f ELSE top
        IN [state |-> [c \in Klasses |->
                         IF Pos(c) = 0 THEN initState[c]
                         ELSE IF Pos(c) < stop THEN "fully_initialized"
                         ELSE "initialization_error"],
            runs  |-> [c \in Klasses |-> clinitRuns[c] + IF Pos(c) \in 1..ran THEN 1 ELSE 0],
            err   |-> IF f # 0 THEN "ExceptionInInitializerError"
                      ELSE IF e # 0 THEN "NoClassDefFoundError" ELSE "none"]
  IN {Outcome(f) : f \in 0..top}

-----------------------------------------------------------------------------
(***************************************************************************)
(* Operations.  Each records its outcome in `last`.                      *)
(***************************************************************************)
NoCall == [op |-> "none", k |-> NoKlass, n |-> NoMethod, cur |-> NoKlass, recv |-> Null,
           resolved |-> NoMethod, err |-> "none", sel |-> NoMethod, index |-> InvalidIndex]

Outcome(op, k, n, cur, recv, resolved, call) ==
  [op |-> op, k |-> k, n |-> n, cur |-> cur, recv |-> recv,
   resolved |-> resolved, err |-> call.err, sel |-> call.m, index |-> call.index]

(***************************************************************************)
(* resolve_invokestatic / resolve_static_call: resolve, switch to the    *)
(* declaring class, initialize it if needed and resolve again from it.   *)
(***************************************************************************)
(* Variant: the class named by the reference is initialized. *)
StaticCallKlassReferenced(k, m) == k

(* resolved_klass = method_holder(): the class a static call initializes. *)
StaticCallKlass(k, m) == m.holder

ResolveInvokeStatic(k, n, cur) ==
  \E r1 \in {LinktimeResolveStaticMethod(k, n, cur, TRUE)} :
    LET h == StaticCallKlass(k, r1.m)
        Done(resolved, call) == last' = Outcome("invokestatic", k, n, cur, Null, resolved, call)
    IN /\ \/ /\ r1.err # "none"
              /\ Done(NoMethod, CallFail(r1.err))
              /\ UNCHANGED <<initState, clinitRuns>>
           \/ /\ r1.err = "none" /\ ~ShouldBeInitialized(h)
              /\ Done(r1.m, SetStatic(r1.m))
              /\ UNCHANGED <<initState, clinitRuns>>
           \/ /\ r1.err = "none" /\ ShouldBeInitialized(h)
              /\ \E o \in InitializeOutcomes(h) :
                   /\ initState' = o.state
                   /\ clinitRuns' = o.runs
                   /\ \E r2 \in {LinktimeResolveStaticMethod(h, n, cur, TRUE)} :
                        Done(r1.m, IF o.err # "none" THEN CallFail(o.err)
                                   ELSE IF r2.err # "none" THEN CallFail(r2.err)
                                   ELSE SetStatic(r2.m))
       /\ UNCHANGED <<decl, vtable>>

(* Record a resolution: r is the link-time result, call the CallInfo.  (In *)
(* these actions \E x \in {e} names the value of e once.)                  *)
Resolved(op, k, n, cur, recv, r, call) ==
  /\ last' = Outcome(op, k, n, cur, recv, r.m, call)
  /\ UNCHANGED <<decl, vtable, initState, clinitRuns>>

(* resolve_invokespecial *)
ResolveInvokeSpecial(k, n, cur) ==
  \E r \in {LinktimeResolveSpecialMethod(k, n, cur, TRUE)} :
    \E call \in {ResolveSpecialCall(r, k, cur, TRUE)} :
      Resolved("invokespecial", k, n, cur, Null, r, call)

(* resolve_invokevirtual: the receiver's class, or NULL for a null receiver *)
ResolveInvokeVirtual(k, n, cur, recv) ==
  \E r \in {LinktimeResolveVirtualMethod(k, n, cur, TRUE)} :
    \E call \in {ResolveVirtualCall(r, recv, recv, k, TRUE)} :
      Resolved("invokevirtual", k, n, cur, recv, r, call)

(* resolve_invokeinterface *)
ResolveInvokeInterface(k, n, cur, recv) ==
  \E r \in {LinktimeResolveInterfaceMethod(k, n, cur, TRUE)} :
    \E call \in {ResolveInterfaceCall(r, recv, recv, k, TRUE)} :
      Resolved("invokeinterface", k, n, cur, recv, r, call)

(***************************************************************************)
(* resolve_virtual_call_or_null / resolve_interface_call_or_null: the     *)
(* compiler's lookups for a known receiver class, with no receiver object *)
(* and no null or abstract checks; an exception becomes a NULL method.    *)
(***************************************************************************)
ResolveVirtualCallOrNull(recvKlass, k, n, cur) ==
  \E r \in {LinktimeResolveVirtualMethod(k, n, cur, TRUE)} :
    \E call \in {ResolveVirtualCall(r, Null, recvKlass, k, FALSE)} :
      Resolved("virtual_or_null", k, n, cur, recvKlass, r, call)

ResolveInterfaceCallOrNull(recvKlass, k, n, cur) ==
  \E r \in {LinktimeResolveInterfaceMethod(k, n, cur, TRUE)} :
    \E call \in {ResolveInterfaceCall(r, Null, recvKlass, k, FALSE)} :
      Resolved("interface_or_null", k, n, cur, recvKlass, r, call)

(* resolve_virtual_vtable_index: the index of that CallInfo (invalid on *)
(* an exception), for a vtable call the compiler emits.                  *)
ResolveVirtualVtableIndex(recvKlass, k, n, cur) ==
  \E r \in {LinktimeResolveVirtualMethod(k, n, cur, TRUE)} :
    \E call \in {ResolveVirtualCall(r, Null, recvKlass, k, FALSE)} :
      Resolved("vtable_index", k, n, cur, recvKlass, r, call)

(* resolve_static_call_or_null: resolve_static_call with initialize_class *)
(* false, so the declaring class is never initialized here.              *)
ResolveStaticCallOrNull(k, n, cur) ==
  \E r \in {LinktimeResolveStaticMethod(k, n, cur, TRUE)} :
    Resolved("static_or_null", k, n, cur, Null, r,
             IF r.err # "none" THEN CallFail(r.err) ELSE SetStatic(r.m))

(* resolve_special_call_or_null *)
ResolveSpecialCallOrNull(k, n, cur) ==
  \E r \in {LinktimeResolveSpecialMethod(k, n, cur, TRUE)} :
    \E call \in {ResolveSpecialCall(r, k, cur, TRUE)} :
      Resolved("special_or_null", k, n, cur, Null, r, call)

(* linktime_resolve_{virtual,interface}_method_or_null: the resolved      *)
(* method only, with no selection; NULL on an exception.                  *)
LinktimeResolveVirtualMethodOrNull(k, n, cur) ==
  \E r \in {LinktimeResolveVirtualMethod(k, n, cur, TRUE)} :
    Resolved("linktime_virtual_or_null", k, n, cur, Null, r,
             IF r.err # "none" THEN CallFail(r.err) ELSE Call(r.m, InvalidIndex))

LinktimeResolveInterfaceMethodOrNull(k, n, cur) ==
  \E r \in {LinktimeResolveInterfaceMethod(k, n, cur, TRUE)} :
    Resolved("linktime_interface_or_null", k, n, cur, Null, r,
             IF r.err # "none" THEN CallFail(r.err) ELSE Call(r.m, InvalidIndex))

-----------------------------------------------------------------------------
(* The receiver classes the verifier lets reach each instruction. *)
VirtualReceivers(k) == {c \in ConcreteKlasses : IsSubtypeOf(c, k)} \cup {Null}
InterfaceReceivers  == ConcreteKlasses \cup {Null}

Init ==
  /\ decl \in {d \in Registries : Loadable(d)}
  /\ vtable = Vtables
  /\ initState = [k \in Klasses |-> IF k = ObjectKlass THEN "fully_initialized" ELSE "linked"]
  /\ clinitRuns = [k \in Klasses |-> 0]
  /\ last = NoCall

(***************************************************************************)
(* The CallInfo is a local of the resolving caller                        *)
(* (InterpreterRuntime::resolve_invoke, ciMethod): the caller reads it,   *)
(* stores what it needs in its cache and drops it before it resolves the  *)
(* next reference.                                                        *)
(***************************************************************************)
ConsumeCallInfo ==
  /\ last # NoCall
  /\ last' = NoCall
  /\ UNCHANGED <<decl, vtable, initState, clinitRuns>>

(* The invocations whose resolution reads the registry only. *)
LinkNext(n, cur) ==
  \/ \E k \in ToSet(SuperChain[cur]) : ResolveInvokeSpecial(k, n, cur)
  \/ \E k \in Klasses : \E recv \in VirtualReceivers(k) : ResolveInvokeVirtual(k, n, cur, recv)
  \/ \E k \in Klasses, recv \in InterfaceReceivers : ResolveInvokeInterface(k, n, cur, recv)
  \/ \E k \in Klasses : \E rk \in VirtualReceivers(k) \ {Null} :
       ResolveVirtualCallOrNull(rk, k, n, cur)
  \/ \E k \in Klasses, rk \in ConcreteKlasses : ResolveInterfaceCallOrNull(rk, k, n, cur)
  \/ \E k \in Klasses : \E rk \in VirtualReceivers(k) \ {Null} :
       ResolveVirtualVtableIndex(rk, k, n, cur)
  \/ \E k \in Klasses : ResolveStaticCallOrNull(k, n, cur)
  \/ \E k \in ToSet(SuperChain[cur]) : ResolveSpecialCallOrNull(k, n, cur)
  \/ \E k \in Klasses : LinktimeResolveVirtualMethodOrNull(k, n, cur)
  \/ \E k \in Klasses : LinktimeResolveInterfaceMethodOrNull(k, n, cur)

Next ==
  \/ /\ last = NoCall
     /\ \E n \in Names, cur \in Callers :
          \/ \E k \in Klasses : ResolveInvokeStatic(k, n, cur)
          \/ LinkNext(n, cur)
  \/ ConsumeCallInfo

Spec == Init /\ [][Next]_vars

LinkSpec ==
  Init /\ [][\/ last = NoCall /\ \E n \in Names, cur \in Callers : LinkNext(n, cur)
             \/ ConsumeCallInfo]_vars

-----------------------------------------------------------------------------
(***************************************************************************)
(* Reference: method selection as JVMS (SE 7 instructions, SE 8 wording  *)
(* of overriding) defines it, written over declarations only: no vtable. *)
(***************************************************************************)
JVMSOverrides(mc, ma) ==
  \/ mc = ma
  \/ /\ mc.holder # ma.holder /\ IsSubtypeOf(mc.holder, ma.holder)
     /\ ~IsStatic(mc) /\ ~IsPrivate(mc)
     /\ \/ IsPublic(ma) \/ IsProtected(ma)
        \/ IsPackagePrivate(ma) /\ PackageOf[mc.holder] = PackageOf[ma.holder]

(* The first class from c upward that declares an instance method P holds for. *)
FirstDeclaration(c, n, P(_)) ==
  LET chain == SuperChain[c]
      i == SelectInSeq(chain, LAMBDA x : Declares(x, n) /\ P(Method(x, n)))
  IN IF i = 0 THEN NoMethod ELSE Method(chain[i], n)

Expect(err, sel) == [err |-> err, sel |-> sel]
Selected(sel, checkAbstract) ==
  IF sel = NoMethod \/ (checkAbstract /\ IsAbstract(sel))
  THEN Expect("AbstractMethodError", NoMethod) ELSE Expect("none", sel)

JVMSInvokeVirtual(r, recv, recvKlass, checkNA) ==
  IF checkNA /\ recv = Null THEN Expect("NullPointerException", NoMethod)
  ELSE Selected(FirstDeclaration(recvKlass, r.name, LAMBDA m : JVMSOverrides(m, r)), checkNA)

JVMSInvokeInterface(r, k, recv, recvKlass, checkNA) ==
  LET sel == FirstDeclaration(recvKlass, r.name, LAMBDA m : ~IsStatic(m))
  IN IF checkNA /\ recv = Null THEN Expect("NullPointerException", NoMethod)
     ELSE IF ~IsSubtypeOf(recvKlass, k) THEN Expect("IncompatibleClassChangeError", NoMethod)
     ELSE IF sel # NoMethod /\ ~IsPublic(sel) THEN Expect("IllegalAccessError", NoMethod)
     ELSE Selected(sel, checkNA)

(* invokespecial: with ACC_SUPER set and a strict superclass named, the   *)
(* search starts at the caller's direct superclass, else at the class     *)
(* named by the reference.                                                *)
JVMSInvokeSpecial(r, k, cur) ==
  LET c == IF /\ cur \in AccSuperKlasses
              /\ IsSubclassOf(cur, k) /\ cur # k
              /\ r.name # "<init>"
           THEN SuperOf[cur] ELSE k
  IN Selected(FirstDeclaration(c, r.name, LAMBDA m : ~IsStatic(m)), TRUE)

DeclaredMethods == {Method(k, n) : <<k, n>> \in {p \in Klasses \X Names : Declares(p[1], p[2])}}

-----------------------------------------------------------------------------
(* Type invariant; a resolution that reports success carries a declared   *)
(* method (CallInfo is never set to a NULL method without an exception).  *)
TypeOK ==
  /\ decl \in [Klasses -> [Names -> Kinds \cup {"none"}]]
  /\ initState \in [Klasses -> ClassStates]
  /\ clinitRuns \in [Klasses -> Nat]
  /\ last.err \in Errors \cup {"none"}
  /\ last.sel \in DeclaredMethods \cup {NoMethod}
  /\ last.op # "none" => (last.err = "none" <=> last.sel # NoMethod)

(***************************************************************************)
(* Once link-time resolution has succeeded, the method that               *)
(* runtime_resolve_{virtual,interface,special}_method selects through the *)
(* vtable, the miranda index and the ACC_SUPER re-lookup is the one the   *)
(* JVMS selection over declarations yields, and so is the error.  For the *)
(* compiler's *_or_null lookups (no abstract check) a method is returned  *)
(* where JVMS selects one, and otherwise only an abstract one.            *)
(***************************************************************************)
DispatchMatchesJVMS ==
  LET r == last.resolved
      got == Expect(last.err, last.sel)
  IN last.resolved # NoMethod =>
       CASE last.op = "invokevirtual" ->
              got = JVMSInvokeVirtual(r, last.recv, last.recv, TRUE)
         [] last.op = "invokeinterface" ->
              got = JVMSInvokeInterface(r, last.k, last.recv, last.recv, TRUE)
         [] last.op \in {"invokespecial", "special_or_null"} ->
              got = JVMSInvokeSpecial(r, last.k, last.cur)
         [] last.op \in {"virtual_or_null", "vtable_index"} ->
              LET want == JVMSInvokeVirtual(r, Null, last.recv, FALSE)
              IN IF want.sel # NoMethod THEN got = want
                 ELSE last.sel = NoMethod \/ IsAbstract(last.sel)
         [] last.op = "interface_or_null" ->
              got = JVMSInvokeInterface(r, last.k, Null, last.recv, FALSE)
         [] OTHER -> TRUE

(***************************************************************************)
(* No resolution walks off the top of the class hierarchy: every lookup  *)
(* ends in a method, an exception, or NULL.                              *)
(***************************************************************************)
ResolutionNeverCrashes == last.err # "VMCrash"

(***************************************************************************)
(* resolve_static_call links a call only after the class declaring the    *)
(* method is fully initialized: a class whose initializer failed, or a    *)
(* superclass of it that failed, never yields a linked static call.       *)
(***************************************************************************)
InitializedBeforeStaticCall ==
  last.op = "invokestatic" /\ last.err = "none" =>
    \A c \in ToSet(SuperChain[last.sel.holder]) : initState[c] = "fully_initialized"

=============================================================================
