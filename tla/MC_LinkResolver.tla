-------------------------- MODULE MC_LinkResolver ---------------------------
(***************************************************************************)
(* A hierarchy small enough for TLC and rich enough for every dispatch    *)
(* case: an abstract class A implementing the interface I, its subclasses *)
(* B and C in the same package, and X, a subclass of B in another package *)
(* that declares nothing.  One method name, declared in each class with   *)
(* any of the access kinds a loadable class file allows.                  *)
(* One field name f: A, B and C may each declare it as a static field of  *)
(* any access, a public static final field or a protected final instance *)
(* field; the interface I may declare it public static final, as the     *)
(* class file format requires.                                            *)
(***************************************************************************)
EXTENDS FieldResolver

MCKlasses          == {"Object", "A", "B", "C", "I", "X"}
MCInterfaceKlasses == {"I"}
MCAbstractKlasses  == {"A"}
MCSuperOf ==
  [k \in MCKlasses |-> CASE k = "Object" -> "NoKlass"
                         [] k \in {"A", "I"} -> "Object"
                         [] k \in {"B"} -> "A"
                         [] k = "X" -> "B"
                         [] k = "C" -> "B"]
MCLocalInterfaces == [k \in MCKlasses |-> IF k = "A" THEN <<"I">> ELSE <<>>]
MCPackageOf == [k \in MCKlasses |-> IF k = "X" THEN "p2" ELSE "p1"]
MCNames == {"m"}

(* Every class may declare m with any kind; Loadable then keeps the class *)
(* files the parser accepts.  Object's declaration is an instance method   *)
(* in the passing runs; RegistriesObjectStatic lets it be static, as       *)
(* Object.registerNatives()V is.                                          *)
ClassKinds == {"none", "public", "protected", "package", "private", "final", "static"}
RegistriesWith(objectKinds) ==
  {[k \in MCKlasses |-> [n \in MCNames |->
      CASE k = "Object" -> o [] k = "A" -> a [] k = "B" -> b
        [] k = "C" -> c [] k = "I" -> i [] k = "X" -> "none"]] :
     o \in objectKinds, a \in ClassKinds \cup {"abstract"}, b \in ClassKinds,
     c \in ClassKinds, i \in {"none", "abstract"}}
MCRegistries == RegistriesWith({"none", "public"})
MCRegistriesObjectStatic == RegistriesWith({"none", "public", "static"})

MCCallers == {"C", "X"}

MCFieldNames == {"f"}
StaticField(acc) == [kind |-> acc, static |-> TRUE, final |-> FALSE]
ClassFieldKinds ==
  {NoField, [kind |-> "public", static |-> TRUE, final |-> TRUE],
           [kind |-> "protected", static |-> FALSE, final |-> TRUE]}
  \cup {StaticField(acc) : acc \in AccessKinds}
InterfaceFieldKinds == {NoField, [kind |-> "public", static |-> TRUE, final |-> TRUE]}

MCFieldRegistries ==
  {[k \in MCKlasses |-> [n \in MCFieldNames |->
      CASE k = "A" -> a [] k = "B" -> b [] k = "C" -> c [] k = "I" -> i
        [] OTHER -> NoField]] :
     a \in ClassFieldKinds, b \in ClassFieldKinds, c \in ClassFieldKinds,
     i \in InterfaceFieldKinds}
MCNoFieldRegistries == {[k \in MCKlasses |-> [n \in MCFieldNames |-> NoField]]}
====
