--------------------------- MODULE LoaderConstraints ---------------------------
(***************************************************************************)
(* Loader constraints at linkage (JVMS 5.3.4).  After a member resolves,  *)
(* LinkResolver::check_method_loader_constraints and                       *)
(* check_field_loader_constraints call                                     *)
(* SystemDictionary::check_signature_loaders with the loader of the       *)
(* referring class and the loader of the class that declares the member. *)
(* For each class name of the signature that adds one loader constraint  *)
(* under SystemDictionary_lock, and the first one that cannot be added    *)
(* makes the resolution throw LinkageError; the constraints added before *)
(* it stay.  Loading a class checks it against the constraints on its    *)
(* initiating loader and fixes their class.  SystemDictionary and its     *)
(* LoaderConstraintTable are outside this repository and are written from *)
(* JVMS 5.3.4.                                                             *)
(*                                                                         *)
(* A resolution request names the referring class's loader (current), the *)
(* loader of the class the reference names (resolved), the loader of the  *)
(* class declaring the member (holder) and the class names of the         *)
(* signature.  The holder is identified by its loader, one class each.    *)
(***************************************************************************)
EXTENDS Integers, Sequences, FiniteSets

LOCAL INSTANCE Relation

CONSTANTS
  Loaders,    \* the class loaders
  Names,      \* the class names signatures mention
  Yields,     \* [Loaders -> [Names -> class]]: what loading through l gives
  NoClass,
  Threads,
  Requests,   \* [kind, current, resolved, holder, sig]
  NoRequest,
  NoThread

Kinds == {"method", "static call", "field", "static field"}

VARIABLES
  loaded,       \* the dictionary: loaded[l][n], the class l initiated for n
  constraints,  \* LoaderConstraintTable: entries [name, loaders, klass]
  req,          \* each thread's resolution request
  pc,           \* "idle", "check", "recheck" or "done"
  next,         \* index in the signature of the next class name to check
  outcome,      \* "none", "linked" or "LinkageError"
  initializer,  \* the thread that initialized the class declared in l
  links         \* <<n, a, b>> for every linked access from loader a to b

lcVars == <<loaded, constraints, req, pc, next, outcome, initializer, links>>

-----------------------------------------------------------------------------
(* The entry for class name n that names loader l, as a set of 0 or 1. *)
EntryFor(n, l) == {e \in constraints : e.name = n /\ l \in e.loaders}

(* The class the entries for (n, l) are fixed to, or NoClass. *)
ConstrainedKlass(n, l) ==
  IF \E e \in EntryFor(n, l) : e.klass # NoClass
  THEN (CHOOSE e \in EntryFor(n, l) : TRUE).klass ELSE NoClass

(***************************************************************************)
(* SystemDictionary::add_loader_constraint and                             *)
(* LoaderConstraintTable::add_entry: the classes l1 and l2 have loaded   *)
(* for n, and the classes their entries are fixed to, must agree; then   *)
(* the two entries (or new ones) are merged into one.  FALSE when the     *)
(* constraint cannot be added.                                             *)
(***************************************************************************)
CanAddConstraint(n, l1, l2) ==
  LET known == {loaded[l1][n], loaded[l2][n],
                ConstrainedKlass(n, l1), ConstrainedKlass(n, l2)} \ {NoClass}
  IN  Cardinality(known) <= 1

AddConstraint(n, l1, l2) ==
  LET known  == {loaded[l1][n], loaded[l2][n],
                 ConstrainedKlass(n, l1), ConstrainedKlass(n, l2)} \ {NoClass}
      old    == EntryFor(n, l1) \cup EntryFor(n, l2)
      merged == [name    |-> n,
                 loaders |-> {l1, l2} \cup UNION {e.loaders : e \in old},
                 klass   |-> IF known = {} THEN NoClass ELSE CHOOSE k \in known : TRUE]
  IN  constraints' = (constraints \ old) \cup {merged}

(***************************************************************************)
(* The two loaders check_*_loader_constraints passes to                    *)
(* check_signature_loaders: the current class's loader and the loader of *)
(* resolved_method->method_holder() for a method; ref_klass's (the pool   *)
(* holder's) and sel_klass's for a field.                                  *)
(***************************************************************************)
CheckMethodLoaderConstraintsResolvedKlass(r) == <<r.current, r.resolved>>

CheckMethodLoaderConstraints(r) == <<r.current, r.holder>>

CheckFieldLoaderConstraints(r) == <<r.current, r.holder>>

CheckedLoaders(r) ==
  IF r.kind \in {"method", "static call"} THEN CheckMethodLoaderConstraints(r)
  ELSE CheckFieldLoaderConstraints(r)

-----------------------------------------------------------------------------
LCInit ==
  /\ loaded = [l \in Loaders |-> [n \in Names |-> NoClass]]
  /\ constraints = {}
  /\ req = [t \in Threads |-> NoRequest]
  /\ pc = [t \in Threads |-> "idle"]
  /\ next = [t \in Threads |-> 1]
  /\ outcome = [t \in Threads |-> "none"]
  /\ initializer = [l \in Loaders |-> NoThread]
  /\ links = {}

(***************************************************************************)
(* SystemDictionary::check_constraints and update_dictionary on another  *)
(* thread: loading n through l is refused while a constraint on (n, l)    *)
(* names another class; otherwise it is recorded and fixes the class of  *)
(* l's entry for n.                                                        *)
(***************************************************************************)
LoadClass(l, n) ==
  /\ loaded[l][n] = NoClass
  /\ ConstrainedKlass(n, l) \in {NoClass, Yields[l][n]}
  /\ loaded' = [loaded EXCEPT ![l][n] = Yields[l][n]]
  /\ constraints' = {IF e \in EntryFor(n, l) THEN [e EXCEPT !.klass = Yields[l][n]] ELSE e
                       : e \in constraints}
  /\ UNCHANGED <<req, pc, next, outcome, initializer, links>>

(* instanceKlass::initialize of the holder: runs <clinit> if no thread did. *)
Initialize(t, l) ==
  initializer' = IF initializer[l] = NoThread
                 THEN [initializer EXCEPT ![l] = t] ELSE initializer

(***************************************************************************)
(* The thread resolves a reference.  resolve_field checks the field, then *)
(* initializes sel_klass for a static access, then checks the loader      *)
(* constraints (linkResolver.cpp 664-678); the method paths check first. *)
(***************************************************************************)
StartResolution(t) ==
  /\ pc[t] = "idle"
  /\ \E r \in Requests :
       /\ req' = [req EXCEPT ![t] = r]
       /\ IF r.kind = "static field" THEN Initialize(t, r.holder)
                                     ELSE UNCHANGED initializer
  /\ pc' = [pc EXCEPT ![t] = "check"]
  /\ next' = [next EXCEPT ![t] = 1]
  /\ UNCHANGED <<loaded, constraints, outcome, links>>

(* The access links: record what it relies on. *)
Linked(t) ==
  /\ outcome' = [outcome EXCEPT ![t] = "linked"]
  /\ pc' = [pc EXCEPT ![t] = "done"]
  /\ links' = links \cup {<<req[t].sig[i], req[t].current, req[t].holder>> : i \in DOMAIN req[t].sig}

(***************************************************************************)
(* One turn of check_signature_loaders: nothing when both loaders are the *)
(* same; else add_loader_constraint for the next class name, throwing    *)
(* LinkageError when it fails.  After the last name, resolve_static_call *)
(* initializes the holder if it should be and resolves again (lines       *)
(* 704-711); every other path has linked.                                 *)
(***************************************************************************)
CheckSignatureLoaders(t) ==
  /\ pc[t] \in {"check", "recheck"}
  /\ LET r  == req[t]
         l1 == CheckedLoaders(r)[1]
         l2 == CheckedLoaders(r)[2]
     IN  IF l1 # l2 /\ next[t] <= Len(r.sig)
         THEN LET n == r.sig[next[t]] IN
              IF CanAddConstraint(n, l1, l2)
              THEN /\ AddConstraint(n, l1, l2)
                   /\ next' = [next EXCEPT ![t] = @ + 1]
                   /\ UNCHANGED <<pc, outcome, initializer, links>>
              ELSE /\ outcome' = [outcome EXCEPT ![t] = "LinkageError"]
                   /\ pc' = [pc EXCEPT ![t] = "done"]
                   /\ UNCHANGED <<constraints, next, initializer, links>>
         ELSE IF r.kind = "static call" /\ pc[t] = "check" /\ initializer[r.holder] = NoThread
         THEN /\ Initialize(t, r.holder)
              /\ pc' = [pc EXCEPT ![t] = "recheck"]
              /\ next' = [next EXCEPT ![t] = 1]
              /\ UNCHANGED <<constraints, outcome, links>>
         ELSE /\ Linked(t)
              /\ UNCHANGED <<constraints, next, initializer>>
  /\ UNCHANGED <<loaded, req>>

LCNext ==
  \/ \E l \in Loaders, n \in Names : LoadClass(l, n)
  \/ \E t \in Threads : StartResolution(t) \/ CheckSignatureLoaders(t)

LCSpec == LCInit /\ [][LCNext]_lcVars

(* Every thread's resolution has ended. *)
LCDone == \A t \in Threads : pc[t] = "done"

-----------------------------------------------------------------------------
(* The loaders whose views of n a chain of linked accesses ties together. *)
Related(n) ==
  ReflexiveTransitiveClosure(
    [p \in Loaders \X Loaders |-> <<n, p[1], p[2]>> \in links \/ <<n, p[2], p[1]>> \in links],
    Loaders)

(***************************************************************************)
(* JVMS 5.3.4: whenever an access from a class of loader a to a member    *)
(* declared by a class of loader b has linked, a and b see the same class *)
(* for every name in the member's signature, now and after any later     *)
(* loading, and so does every loader tied to them by a chain of such      *)
(* accesses (the spec's L1/L2/L3 scenario).  It takes the constraint      *)
(* checks of check_method_loader_constraints and                           *)
(* check_field_loader_constraints, the constraint merging and the checks *)
(* when loading, interleaved with other threads' loads between the names *)
(* of one signature.                                                       *)
(***************************************************************************)
LinkedTypesAgree ==
  links # {} =>
  \A n \in Names, a, b \in Loaders :
    Related(n)[a, b] /\ loaded[a][n] # NoClass /\ loaded[b][n] # NoClass
      => loaded[a][n] = loaded[b][n]

(***************************************************************************)
(* The comment of resolve_static_call: the class is initialized "only if  *)
(* everything is ok".  A resolution that ran a <clinit> does not end in   *)
(* LinkageError.                                                           *)
(***************************************************************************)
InitializesOnlyLinkedAccess ==
  \A l \in Loaders :
    initializer[l] # NoThread /\ pc[initializer[l]] = "done"
      => outcome[initializer[l]] = "linked"

====
