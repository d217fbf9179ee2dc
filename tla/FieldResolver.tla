---------------------------- MODULE FieldResolver ----------------------------
(***************************************************************************)
(* LinkResolver::resolve_field: resolution of a constant-pool field       *)
(* reference for getstatic, putstatic, getfield and putfield, including   *)
(* the initialization of the declaring class that a static access         *)
(* triggers (shared with static calls, from LinkResolver).  The fields    *)
(* each class declares are chosen in Init; a field is a record of its     *)
(* holder, name, access kind and its static and final flags.  Classes     *)
(* declare no methods here.                                                *)
(***************************************************************************)
EXTENDS LinkResolver

CONSTANTS
  FieldNames,
  FieldRegistries  \* candidate [Klasses -> [FieldNames -> FieldKinds \cup {NoField}]]

AccessKinds == {"public", "protected", "package", "private"}
FieldKinds  == [kind : AccessKinds, static : BOOLEAN, final : BOOLEAN]
NoField     == [kind |-> "none", static |-> FALSE, final |-> FALSE]

VARIABLES
  fdecl,      \* [Klasses -> [FieldNames -> FieldKinds \cup {NoField}]], the fields arrays
  lastField   \* the field access last resolved and its outcome

fvars == <<decl, vtable, initState, clinitRuns, last, fdecl, lastField>>

Field(k, f) == [holder |-> k, name |-> f] @@ fdecl[k][f]
DeclaresField(k, f) == fdecl[k][f] # NoField

(***************************************************************************)
(* instanceKlass::find_field (JVMS 5.4.3.2): the class itself, then its   *)
(* direct superinterfaces recursively, in declaration order, then its     *)
(* superclass.  The result is the class that declares the field.          *)
(***************************************************************************)
RECURSIVE FindField(_, _)
FindField(k, f) ==
  IF DeclaresField(k, f) THEN k ELSE
  LET ifs == LocalInterfaces[k]
      i   == SelectInSeq(ifs, LAMBDA j : FindField(j, f) # NoKlass)
  IN IF i # 0 THEN FindField(ifs[i], f)
     ELSE IF SuperOf[k] = NoKlass THEN NoKlass
     ELSE FindField(SuperOf[k], f)

FieldBytecodes == {"getstatic", "putstatic", "getfield", "putfield"}
IsStaticAccess(byte) == byte \in {"getstatic", "putstatic"}
IsPut(byte)          == byte \in {"putstatic", "putfield"}

NoAccess == [byte |-> "none", k |-> NoKlass, f |-> NoMethod, cur |-> NoKlass,
             checkOnly |-> FALSE, err |-> "none", sel |-> NoKlass]

(* result.set(holder, ...): the class that declares the field. *)
AccessOutcome(byte, k, f, cur, checkOnly, err, sel) ==
  [byte |-> byte, k |-> k, f |-> f, cur |-> cur, checkOnly |-> checkOnly,
   err |-> err, sel |-> IF err = "none" THEN sel ELSE NoKlass]

(***************************************************************************)
(* The checks of resolve_field before initialization, in the code's order: *)
(* no such field, check_field_accessability, static mismatch, and a put   *)
(* to a final field from a class other than the declaring one.            *)
(***************************************************************************)
(* check_field_accessability: Reflection::verify_field_access on the field's flags. *)
CheckFieldAccessability(cur, resolved, sel, fd) == VerifyFieldAccess(cur, resolved, sel, fd)

(* Variant: the final-field check compares the referenced class. *)
FinalPutDeniedResolvedKlass(k, sel, cur) == k # cur

FinalPutDenied(k, sel, cur) == sel # cur

LinkFieldError(byte, k, f, cur) ==
  LET sel == FindField(k, f)
      fd  == Field(sel, f)
  IN IF sel = NoKlass THEN "NoSuchFieldError"
     ELSE IF ~CheckFieldAccessability(cur, k, sel, fd) THEN "IllegalAccessError"
     ELSE IF IsStaticAccess(byte) # fd.static THEN "IncompatibleClassChangeError"
     ELSE IF IsPut(byte) /\ fd.final /\ FinalPutDenied(k, sel, cur) THEN "IllegalAccessError"
     ELSE "none"

(* Variant: the class named by the reference is initialized. *)
FieldInitKlassReferenced(k, sel) == k

(* sel_klass->initialize: the class that declares the field (note 1). *)
FieldInitKlass(k, sel) == sel

(* Variant: initialize's exception is not checked. *)
InitErrorIgnored(o) == "none"

InitError(o) == o.err

(***************************************************************************)
(* resolve_field: a static access that is not check_only initializes the  *)
(* declaring class (instanceKlass::initialize does nothing when it is     *)
(* already initialized); the loader constraint check then passes (one     *)
(* defining loader) and FieldAccessInfo is set from the declaring class.  *)
(***************************************************************************)
ResolveField(byte, k, f, cur, checkOnly) ==
  \E err \in {LinkFieldError(byte, k, f, cur)} :
    LET sel == FindField(k, f)
        ik  == FieldInitKlass(k, sel)
        Done(e) == lastField' = AccessOutcome(byte, k, f, cur, checkOnly, e, sel)
        initialize == err = "none" /\ IsStaticAccess(byte) /\ ~checkOnly /\ ShouldBeInitialized(ik)
    IN /\ \/ /\ ~initialize
             /\ Done(err)
             /\ UNCHANGED <<initState, clinitRuns>>
          \/ /\ initialize
             /\ \E o \in InitializeOutcomes(ik) :
                  /\ initState' = o.state
                  /\ clinitRuns' = o.runs
                  /\ Done(InitError(o))
       /\ UNCHANGED <<decl, vtable, last, fdecl>>

ConsumeFieldAccessInfo ==
  /\ lastField # NoAccess
  /\ lastField' = NoAccess
  /\ UNCHANGED <<decl, vtable, initState, clinitRuns, last, fdecl>>

FieldInit ==
  /\ decl = [k \in Klasses |-> [n \in Names |-> "none"]]
  /\ vtable = Vtables
  /\ initState = [k \in Klasses |-> IF k = ObjectKlass THEN "fully_initialized" ELSE "linked"]
  /\ clinitRuns = [k \in Klasses |-> 0]
  /\ last = NoCall
  /\ fdecl \in FieldRegistries
  /\ lastField = NoAccess

FieldNext ==
  \/ /\ lastField = NoAccess
     /\ \E byte \in FieldBytecodes, k \in Klasses, f \in FieldNames, cur \in Callers,
           checkOnly \in BOOLEAN :
          ResolveField(byte, k, f, cur, checkOnly)
  \/ ConsumeFieldAccessInfo

FieldSpec == FieldInit /\ [][FieldNext]_fvars

(***************************************************************************)
(* Method and field resolution of one VM: each starts when the other's    *)
(* result has been consumed.  A run starts either from a loadable method  *)
(* registry and no fields, or from a field layout and no methods.          *)
(***************************************************************************)
ResolutionInit ==
  \/ /\ Init
     /\ fdecl = [k \in Klasses |-> [f \in FieldNames |-> NoField]]
     /\ lastField = NoAccess
  \/ FieldInit

ResolutionNext ==
  \/ /\ lastField = NoAccess
     /\ Next
     /\ UNCHANGED <<fdecl, lastField>>
  \/ /\ last = NoCall
     /\ FieldNext

ResolutionSpec == ResolutionInit /\ [][ResolutionNext]_fvars

-----------------------------------------------------------------------------
(***************************************************************************)
(* A static field access that links, other than the compiler's            *)
(* check_only one, finds the class declaring the field and all its        *)
(* superclasses fully initialized: an initializer that failed, now or     *)
(* earlier, makes the access fail.                                         *)
(***************************************************************************)
InitializedBeforeStaticFieldAccess ==
  LET a == lastField IN
    IsStaticAccess(a.byte) /\ ~a.checkOnly /\ a.err = "none" =>
      \A c \in ToSet(SuperChain[a.sel]) : initState[c] = "fully_initialized"

(***************************************************************************)
(* A put to a final field links only from the class that declares it,    *)
(* even when the reference names a subclass that inherits the field.     *)
(***************************************************************************)
FinalFieldPutOnlyFromDeclaringClass ==
  LET a == lastField IN
    IsPut(a.byte) /\ a.err = "none" /\ Field(a.sel, a.f).final => a.cur = a.sel

(***************************************************************************)
(* Resolution initializes a class only for an invokestatic, or for a      *)
(* getstatic or putstatic that is not check_only, and then only the class *)
(* that declares the method or field and its superclasses: never the      *)
(* class the reference names (resolve_static_call, and resolve_field's    *)
(* note 1).  The compiler's *_or_null entry points initialize nothing.   *)
(***************************************************************************)
InitTargetsDeclaringClass ==
  [][\A c \in Klasses :
       initState'[c] # initState[c] =>
         \/ /\ last'.op = "invokestatic"
            /\ c \in ToSet(SuperChain[last'.resolved.holder])
         \/ /\ IsStaticAccess(lastField'.byte) /\ ~lastField'.checkOnly
            /\ c \in ToSet(SuperChain[FindField(lastField'.k, lastField'.f)])]_fvars

====
