--------------------------- MODULE KlassHierarchy ---------------------------
(***************************************************************************)
(* The Type Registry that the link resolver reads: a finalized class      *)
(* hierarchy, the methods each class declares, method lookup along the     *)
(* superclass chain and through the transitive interfaces, and the vtable *)
(* of every class.  The registry is immutable once classes are loaded:     *)
(* the variable decl is chosen in Init among loadable class files and is   *)
(* never changed by the resolver.                                          *)
(*                                                                         *)
(* One method name stands for a name+signature pair (symbols are interned, *)
(* so equality of the pair is identity).  A method is a record of its      *)
(* holder, its name and one "kind" that summarises its access flags.       *)
(***************************************************************************)
EXTENDS Integers, Sequences, SequencesExt, FiniteSets

CONSTANTS
  Klasses,           \* every class and interface of the hierarchy
  ObjectKlass,       \* java.lang.Object, the root
  InterfaceKlasses,  \* the interfaces among Klasses
  AbstractKlasses,   \* the abstract classes among Klasses
  SuperOf,           \* [Klasses -> Klasses \cup {NoKlass}]; Object for interfaces
  LocalInterfaces,   \* [Klasses -> Seq(InterfaceKlasses)], declaration order
  PackageOf,         \* [Klasses -> packages]; one defining loader for all
  Names,             \* method name+signature pairs
  Registries,        \* candidate declaration maps, [Klasses -> [Names -> kind]]
  NoKlass,           \* the NULL klassOop
  NoMethod           \* the NULL methodOop

Kinds == {"public", "protected", "package", "private", "final", "static", "abstract"}

ASSUME /\ ObjectKlass \in Klasses /\ SuperOf[ObjectKlass] = NoKlass
       /\ \A k \in InterfaceKlasses : SuperOf[k] = ObjectKlass
       /\ \A d \in Registries : \A k \in Klasses, n \in Names : d[k][n] \in Kinds \cup {"none"}

VARIABLES
  decl,    \* [Klasses -> [Names -> Kinds \cup {"none"}]], the methods arrays
  vtable   \* [Klasses -> Seq(method)], the vtables built when the classes were linked

Method(k, n) == [holder |-> k, name |-> n, kind |-> decl[k][n]]
Declares(k, n) == decl[k][n] # "none"

IsStatic(m)         == m.kind = "static"
IsPrivate(m)        == m.kind = "private"
IsAbstract(m)       == m.kind = "abstract"
IsFinal(m)          == m.kind = "final"
IsProtected(m)      == m.kind = "protected"
IsPublic(m)         == m.kind \in {"public", "final", "static", "abstract"}
IsPackagePrivate(m) == m.kind = "package"

(***************************************************************************)
(* Klass::super() chain, the class itself first.                          *)
(***************************************************************************)
RECURSIVE SuperChainOf(_)
SuperChainOf(k) ==
  IF SuperOf[k] = NoKlass THEN <<k>> ELSE <<k>> \o SuperChainOf(SuperOf[k])

SuperChain == [k \in Klasses |-> SuperChainOf(k)]

IsSubclassOf(k, s) == s \in ToSet(SuperChain[k])   \* reflexive, as is_subclass_of

(***************************************************************************)
(* transitive_interfaces(): the superclass's, then each local interface's *)
(* superinterfaces, then the local interfaces, without repetition.        *)
(***************************************************************************)
AppendNew(acc, k) == IF Contains(acc, k) THEN acc ELSE Append(acc, k)

RECURSIVE TransitiveInterfacesOf(_)
TransitiveInterfacesOf(k) ==
  LET locals   == LocalInterfaces[k]
      fromSuper == IF SuperOf[k] = NoKlass \/ k \in InterfaceKlasses
                   THEN <<>> ELSE TransitiveInterfacesOf(SuperOf[k])
      fromLocal == FlattenSeq([i \in 1..Len(locals) |-> TransitiveInterfacesOf(locals[i])])
  IN FoldLeft(AppendNew, <<>>, fromSuper \o fromLocal \o locals)

TransitiveInterfaces == [k \in Klasses |-> TransitiveInterfacesOf(k)]

IsSubtypeOf(k, t) == IsSubclassOf(k, t) \/ Contains(TransitiveInterfaces[k], t)

(***************************************************************************)
(* instanceKlass::uncached_lookup_method: the first declaration of n on   *)
(* the superclass chain, static and private methods included.  For an     *)
(* interface the chain continues into java.lang.Object.                   *)
(***************************************************************************)
UncachedLookupMethod(k, n) ==
  LET chain == SuperChain[k]
      i     == SelectInSeq(chain, LAMBDA c : Declares(c, n))
  IN IF i = 0 THEN NoMethod ELSE Method(chain[i], n)

(***************************************************************************)
(* instanceKlass::lookup_method_in_all_interfaces: the first interface in *)
(* transitive_interfaces() order whose lookup_method finds n.             *)
(***************************************************************************)
LookupMethodInAllInterfaces(k, n) ==
  LET ifs == TransitiveInterfaces[k]
      i   == SelectInSeq(ifs, LAMBDA j : UncachedLookupMethod(j, n) # NoMethod)
  IN IF i = 0 THEN NoMethod ELSE UncachedLookupMethod(ifs[i], n)

(***************************************************************************)
(* Class files the loader accepts: abstract methods only in abstract      *)
(* classes and interfaces, interface methods public abstract, and no       *)
(* subclass re-declaring a final method other than as private or static    *)
(* (the parser's final-override check).                                   *)
(***************************************************************************)
Loadable(d) ==
  /\ \A k \in Klasses, n \in Names :
       d[k][n] = "abstract" => k \in AbstractKlasses \cup InterfaceKlasses
  /\ \A k \in InterfaceKlasses, n \in Names : d[k][n] \in {"none", "abstract"}
  /\ \A k \in Klasses \ InterfaceKlasses, n \in Names :
       \A i \in 2..Len(SuperChain[k]) :
         d[SuperChain[k][i]][n] = "final" => d[k][n] \in {"none", "private", "static"}

(***************************************************************************)
(* Vtables, built by the registry when a class is linked.  A declaration  *)
(* d overrides the entry e when d is an instance, non-private method and   *)
(* e is accessible to d's class (public, protected or same package).       *)
(* Statically bound methods (static, private, final and not overriding,    *)
(* <init>) get no entry.  A class whose superclass chain lacks an          *)
(* interface method gets a miranda entry holding the interface method.     *)
(***************************************************************************)
Overrides(d, e) ==
  /\ d.name = e.name
  /\ ~IsStatic(d) /\ ~IsPrivate(d)
  /\ ~IsPrivate(e)
  /\ IsPublic(e) \/ IsProtected(e) \/ PackageOf[d.holder] = PackageOf[e.holder]

NeedsNewEntry(d) == ~IsStatic(d) /\ ~IsPrivate(d) /\ ~IsFinal(d) /\ d.name # "<init>"

RECURSIVE VTableOf(_)
VTableOf(k) ==
  IF k \in InterfaceKlasses THEN VTableOf(ObjectKlass) ELSE
  LET own       == {Method(k, n) : n \in {x \in Names : Declares(k, x)}}
      inherited == IF SuperOf[k] = NoKlass THEN <<>> ELSE VTableOf(SuperOf[k])
      updated   == [i \in 1..Len(inherited) |->
                      IF \E d \in own : Overrides(d, inherited[i])
                      THEN CHOOSE d \in own : Overrides(d, inherited[i])
                      ELSE inherited[i]]
      fresh     == SetToSeq({d \in own : NeedsNewEntry(d) /\
                               \A i \in 1..Len(inherited) : ~Overrides(d, inherited[i])})
      slots     == updated \o fresh
      mirandas  == SetToSeq({LookupMethodInAllInterfaces(k, n) :
                     n \in {x \in Names : /\ UncachedLookupMethod(k, x) = NoMethod
                                          /\ LookupMethodInAllInterfaces(k, x) # NoMethod
                                          /\ \A i \in 1..Len(slots) : slots[i].name # x}})
  IN slots \o mirandas

Vtables == [k \in Klasses |-> VTableOf(k)]

(***************************************************************************)
(* methodOopDesc::vtable_index(): the entry the method occupies in its    *)
(* holder's vtable, or the nonvirtual index for a statically bound one.   *)
(***************************************************************************)
NonVirtualIndex == -2
InvalidIndex    == -1

VtableIndex(m) ==
  LET i == SelectLastInSeq(vtable[m.holder], LAMBDA e : e = m)
  IN IF m.holder \in InterfaceKlasses \/ i = 0 THEN NonVirtualIndex ELSE i

(***************************************************************************)
(* klassVtable::index_of_miranda: searched from the bottom for an entry   *)
(* whose method is an interface method of that name.                      *)
(***************************************************************************)
IndexOfMiranda(k, n) ==
  LET i == SelectLastInSeq(vtable[k], LAMBDA e : e.name = n /\ e.holder \in InterfaceKlasses)
  IN IF i = 0 THEN InvalidIndex ELSE i

=============================================================================
