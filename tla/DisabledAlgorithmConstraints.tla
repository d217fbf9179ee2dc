--------------------- MODULE DisabledAlgorithmConstraints ---------------------
(***************************************************************************)
(* sun.security.util.DisabledAlgorithmConstraints (src/unnamed/part_005): *)
(* the constructor parses a disabled-algorithms security property into a  *)
(* map from algorithm to a list of constraint chains, then the permits    *)
(* methods answer queries about keys, algorithm parameters and            *)
(* certificates.  Every entry of the property becomes one chain; the      *)
(* conditions of an entry joined by "&" are the chain's nextConstraint    *)
(* links.                                                                  *)
(*                                                                         *)
(* The property's text is abstracted to its tokens: an entry is a record  *)
(* of its algorithm and its sequence of conditions (empty: "space <= 0"). *)
(* Algorithm names are upper case and atomic (no aliases, no "with"       *)
(* decomposition).  Dates are integers; Java ints are IntBits wide.       *)
(***************************************************************************)
EXTENDS Integers, Sequences, SequencesExt, FiniteSets

CONSTANTS
  Algorithms,    \* key and signature algorithm names
  Variants,      \* Validator variants a ConstraintsParameters may carry
  Dates,         \* the dates of denyAfter conditions and of validations
  Sizes,         \* key sizes KeyUtil.getKeySize may return (-1: unknown)
  IntBits,       \* width of a Java int
  PropertyValues \* candidate values of the security property: Seq of entries

MaxInt == 2^(IntBits - 1) - 1
MinInt == -(2^(IntBits - 1))
JavaInt == MinInt..MaxInt

(* Two's complement wrap of a mathematical integer to a Java int. *)
Wrap(x) == ((x - MinInt) % (2^IntBits)) + MinInt

(* Operator.of accepts these; any other token throws IllegalArgumentException. *)
Operators == {"==", "!=", "<", "<=", ">", ">="}

(* Validator.VAR_* names of the usage tokens; anything else maps to null. *)
NullVariant == "null"

ToVariant(u) ==
  CASE u = "TLSServer" -> "tls_server"
    [] u = "TLSClient" -> "tls_client"
    [] u = "SignedJAR" -> "code_signing"
    [] OTHER          -> NullVariant

VARIABLES
  props,        \* the property being parsed: Seq of entries
  next,         \* index of the next entry the constructor processes
  status,       \* "parsing", "ready", or "IllegalArgumentException"
  constraints,  \* constraintsMap: [Algorithms -> Seq(chain)], a chain is Seq(Constraint)
  last          \* the last query and its result

vars == <<props, next, status, constraints, last>>

(* A null key or AlgorithmParameters, and no query. *)
NoKey    == [alg |-> "", size |-> 0]
NoParams == [alg |-> "", size |-> 0]
NoQuery  == [kind |-> "none", alg |-> "", key |-> NoKey, aps |-> NoParams, now |-> 0,
             cp |-> [key |-> NoKey, variant |-> "", trusted |-> FALSE, date |-> 0],
             result |-> "none"]

-----------------------------------------------------------------------------
(***************************************************************************)
(* Constraint objects.  Every constraint is one record shape; op and n of *)
(* a KeySizeConstraint are the tokens it was built from (the object keeps *)
(* only minSize, maxSize and prohibitedSize).                              *)
(***************************************************************************)
Constraint(cls, alg) ==
  [cls |-> cls, alg |-> alg, min |-> 0, max |-> 0, prohibited |-> -1,
   date |-> 0, usages |-> <<>>, op |-> "", n |-> 0]

(* Variant: "keySize <= n" allows sizes from n on. *)
KeySizeBoundsLEOffByOne(op, n) ==
  CASE op = "==" -> [min |-> 0, max |-> MaxInt, prohibited |-> n]
    [] op = "!=" -> [min |-> n, max |-> n, prohibited |-> -1]
    [] op = "<"  -> [min |-> n, max |-> MaxInt, prohibited |-> -1]
    [] op = "<=" -> [min |-> n, max |-> MaxInt, prohibited |-> -1]
    [] op = ">"  -> [min |-> 0, max |-> n, prohibited |-> -1]
    [] op = ">=" -> [min |-> 0, max |-> IF n > 1 THEN n - 1 ELSE 0, prohibited |-> -1]

(* KeySizeConstraint's constructor: the allowed range of sizes. *)
KeySizeBounds(op, n) ==
  CASE op = "==" -> [min |-> 0, max |-> MaxInt, prohibited |-> n]
    [] op = "!=" -> [min |-> n, max |-> n, prohibited |-> -1]
    [] op = "<"  -> [min |-> n, max |-> MaxInt, prohibited |-> -1]
    [] op = "<=" -> [min |-> Wrap(n + 1), max |-> MaxInt, prohibited |-> -1]
    [] op = ">"  -> [min |-> 0, max |-> n, prohibited |-> -1]
    [] op = ">=" -> [min |-> 0, max |-> IF n > 1 THEN n - 1 ELSE 0, prohibited |-> -1]

KeySizeConstraint(alg, op, n) ==
  [Constraint("KeySize", alg) EXCEPT !.op = op, !.n = n,
     !.min = KeySizeBounds(op, n).min, !.max = KeySizeBounds(op, n).max,
     !.prohibited = KeySizeBounds(op, n).prohibited]

DenyAfterConstraint(alg, d) == [Constraint("DenyAfter", alg) EXCEPT !.date = d]
UsageConstraint(alg, us)    == [Constraint("Usage", alg) EXCEPT !.usages = us]

-----------------------------------------------------------------------------
(***************************************************************************)
(* The body of the constructor's loop over the conditions of one entry.   *)
(* The accumulator is the chain built so far and the two once-only flags. *)
(***************************************************************************)
(* Variant: jdkCALimit is never set. *)
ParseConditionNoJdkCALimit(alg, acc, cond) ==
  IF acc.err THEN acc ELSE
  CASE cond.type = "keySize" ->
         IF cond.op \in Operators
         THEN [acc EXCEPT !.chain = Append(@, KeySizeConstraint(alg, cond.op, cond.n))]
         ELSE [acc EXCEPT !.err = TRUE]
    [] cond.type = "jdkCA" ->
         IF acc.jdkCA THEN [acc EXCEPT !.err = TRUE]
         ELSE [acc EXCEPT !.chain = Append(@, Constraint("jdkCA", alg))]
    [] cond.type = "denyAfter" ->
         IF acc.denyAfter THEN [acc EXCEPT !.err = TRUE]
         ELSE [acc EXCEPT !.chain = Append(@, DenyAfterConstraint(alg, cond.date)),
                          !.denyAfter = TRUE]
    [] cond.type = "usage" -> [acc EXCEPT !.chain = Append(@, UsageConstraint(alg, cond.usages))]
    [] OTHER -> [acc EXCEPT !.err = TRUE]

ParseCondition(alg, acc, cond) ==
  IF acc.err THEN acc ELSE
  CASE cond.type = "keySize" ->
         IF cond.op \in Operators
         THEN [acc EXCEPT !.chain = Append(@, KeySizeConstraint(alg, cond.op, cond.n))]
         ELSE [acc EXCEPT !.err = TRUE]
    [] cond.type = "jdkCA" ->
         IF acc.jdkCA THEN [acc EXCEPT !.err = TRUE]
         ELSE [acc EXCEPT !.chain = Append(@, Constraint("jdkCA", alg)), !.jdkCA = TRUE]
    [] cond.type = "denyAfter" ->
         IF acc.denyAfter THEN [acc EXCEPT !.err = TRUE]
         ELSE [acc EXCEPT !.chain = Append(@, DenyAfterConstraint(alg, cond.date)),
                          !.denyAfter = TRUE]
    [] cond.type = "usage" -> [acc EXCEPT !.chain = Append(@, UsageConstraint(alg, cond.usages))]
    [] OTHER -> [acc EXCEPT !.err = TRUE]

ParseChain(alg, conds) ==
  FoldLeft(LAMBDA acc, cond : ParseCondition(alg, acc, cond),
           [chain |-> <<>>, jdkCA |-> FALSE, denyAfter |-> FALSE, err |-> FALSE], conds)

(* One iteration of the constructor's loop over the property's entries. *)
ParseEntry ==
  /\ status = "parsing"
  /\ next <= Len(props)
  /\ LET e == props[next] IN
       IF e.conds = <<>>
       THEN /\ constraints' = [constraints EXCEPT ![e.alg] = Append(@, <<Constraint("Disabled", e.alg)>>)]
            /\ UNCHANGED status
       ELSE \E p \in {ParseChain(e.alg, e.conds)} :
              IF p.err
              THEN status' = "IllegalArgumentException" /\ UNCHANGED constraints
              ELSE constraints' = [constraints EXCEPT ![e.alg] = Append(@, p.chain)]
                   /\ UNCHANGED status
  /\ next' = next + 1
  /\ UNCHANGED <<props, last>>

ParseDone ==
  /\ status = "parsing" /\ next > Len(props)
  /\ status' = "ready"
  /\ UNCHANGED <<props, next, constraints, last>>

-----------------------------------------------------------------------------
(***************************************************************************)
(* The old-style checks, which answer true or false.  A key is a record   *)
(* of its algorithm and KeyUtil.getKeySize of it.                          *)
(***************************************************************************)
(* KeySizeConstraint.permitsImpl *)
PermitsImpl(c, key) ==
  \/ c.alg # key.alg
  \/ key.size < 0
  \/ /\ key.size > 0
     /\ ~(key.size < c.min \/ key.size > c.max \/ c.prohibited = key.size)

(* KeySizeConstraint.permits(AlgorithmParameters): the same test on the *)
(* size of the parameters.                                               *)
PermitsParameters(c, aps) ==
  IF c.cls = "KeySize" THEN PermitsImpl(c, aps) ELSE TRUE

(* Variant: permits(Key) of KeySize and DenyAfter does not consult the chain. *)
ChainPermitsKeyNoNext(chain, i, key, now) ==
  LET c == chain[i] IN
  CASE c.cls = "KeySize"   -> PermitsImpl(c, key)
    [] c.cls = "DenyAfter" -> c.date > now
    [] c.cls = "Disabled"  -> FALSE
    [] OTHER               -> TRUE

(* Constraint.permits(Key) of chain[i] and next(Key): a later constraint *)
(* that permits the key permits it.                                      *)
RECURSIVE ChainPermitsKey(_, _, _, _)
ChainPermitsKey(chain, i, key, now) ==
  LET c == chain[i]
      nextPermits == i < Len(chain) /\ ChainPermitsKey(chain, i + 1, key, now)
  IN CASE c.cls = "KeySize"   -> nextPermits \/ PermitsImpl(c, key)
       [] c.cls = "DenyAfter" -> nextPermits \/ c.date > now
       [] c.cls = "Disabled"  -> FALSE
       [] OTHER               -> TRUE

(* Constraints.permits(Key) *)
ConstraintsPermitKey(key, now) ==
  \A i \in DOMAIN constraints[key.alg] : ChainPermitsKey(constraints[key.alg][i], 1, key, now)

(* Constraints.permits(String, AlgorithmParameters): only the head of each chain. *)
ConstraintsPermitParameters(alg, aps) ==
  \A i \in DOMAIN constraints[alg] : PermitsParameters(constraints[alg][i][1], aps)

(* AbstractAlgorithmConstraints.checkAlgorithm: an entry that is the bare *)
(* algorithm name disables it.                                            *)
CheckAlgorithm(alg) == \A i \in DOMAIN props : props[i] # [alg |-> alg, conds |-> <<>>]

(***************************************************************************)
(* checkConstraints, reached from permits(Set, Key) with algorithm "" and *)
(* from permits(Set, String, Key, AlgorithmParameters).                   *)
(***************************************************************************)
CheckConstraints(alg, key, aps, now) ==
  /\ alg # "" => /\ CheckAlgorithm(alg)
                 /\ aps # NoParams => ConstraintsPermitParameters(alg, aps)
  /\ CheckAlgorithm(key.alg)
  /\ ConstraintsPermitKey(key, now)

-----------------------------------------------------------------------------
(***************************************************************************)
(* The new-style check permits(String, ConstraintsParameters), which       *)
(* throws.  cp carries the public key (of the certificate or given;      *)
(* NoKey for neither), the variant, whether the chain has a trusted match in    *)
(* cacerts, and the date of the validation (JAR timestamp, PKIX date or   *)
(* now).  An outcome is "permitted", "CertPathValidatorException" or      *)
(* "NullPointerException".                                                 *)
(***************************************************************************)
CPVE == "CertPathValidatorException"
NPE  == "NullPointerException"

(* The usages loop of UsageConstraint.permits: the first usage whose     *)
(* variant equals cp's decides; a usage that maps to null throws NPE in  *)
(* compareTo.                                                             *)
UsageDecides(us, cp) ==
  LET i == SelectInSeq(us, LAMBDA u : ToVariant(u) = NullVariant \/ ToVariant(u) = cp.variant)
  IN IF i = 0 THEN "none"
     ELSE IF ToVariant(us[i]) = NullVariant THEN NPE ELSE "match"

(* Variant: KeySizeConstraint.permits(cp) throws without consulting the chain. *)
KeySizeFailsKeySizeAlone(chain, i, cp, nextOutcome) == CPVE

(* KeySizeConstraint.permits(cp) on a key it disallows. *)
KeySizeFails(chain, i, cp, nextOutcome) == nextOutcome

RECURSIVE ChainPermitsCP(_, _, _)
ChainPermitsCP(chain, i, cp) ==
  LET c == chain[i]
      \* next(cp): the rest of the chain decides; at its end the constraint throws
      nextOr == IF i < Len(chain) THEN ChainPermitsCP(chain, i + 1, cp) ELSE CPVE
  IN CASE c.cls = "KeySize" ->
            IF cp.key # NoKey /\ ~PermitsImpl(c, cp.key)
            THEN KeySizeFails(chain, i, cp, nextOr) ELSE "permitted"
       [] c.cls = "jdkCA"     -> IF cp.trusted THEN nextOr ELSE "permitted"
       [] c.cls = "DenyAfter" -> IF ~(c.date > cp.date) THEN nextOr ELSE "permitted"
       [] c.cls = "Usage" ->
            CASE UsageDecides(c.usages, cp) = "match" -> nextOr
              [] UsageDecides(c.usages, cp) = NPE     -> NPE
              [] OTHER                                -> "permitted"
       [] c.cls = "Disabled" -> CPVE

(* The algorithms Constraints.permits(String, cp) looks up. *)
CPAlgorithms(alg, cp) ==
  (IF alg # "" THEN {alg} ELSE {}) \cup (IF cp.key # NoKey THEN {cp.key.alg} ELSE {})

(* The chains in the order they are checked, for one order of the HashSet. *)
ChainsInOrder(order) == FlattenSeq([j \in DOMAIN order |-> constraints[order[j]]])

(* The first exception the chains throw, in that order. *)
FirstOutcome(chains, cp) ==
  LET k == SelectInSeq(chains, LAMBDA ch : ChainPermitsCP(ch, 1, cp) # "permitted")
  IN IF k = 0 THEN "permitted" ELSE ChainPermitsCP(chains[k], 1, cp)

(* HashSet iteration order is unspecified: every order is possible. *)
PermitsCPOutcomes(alg, cp) ==
  {FirstOutcome(ChainsInOrder(o), cp) : o \in SetToSeqs(CPAlgorithms(alg, cp))}

-----------------------------------------------------------------------------
(***************************************************************************)
(* The queries, once the constructor has returned.  A caller's query is   *)
(* answered in one step and its result read by the caller (ReadResult).   *)
(***************************************************************************)
Keys     == [alg : Algorithms, size : Sizes]
Params   == [alg : Algorithms, size : Sizes]
CPs      == [key : Keys \cup {NoKey}, variant : Variants, trusted : BOOLEAN, date : Dates]

Query(kind, alg, key, aps, now, cp, result) ==
  [kind |-> kind, alg |-> alg, key |-> key, aps |-> aps, now |-> now, cp |-> cp,
   result |-> result]

(* permits(Set, Key) and permits(Set, String, Key, AlgorithmParameters); *)
(* the latter refuses an empty algorithm name.                           *)
PermitsKey(alg, key, aps, now) ==
  /\ status = "ready" /\ last = NoQuery
  /\ alg = "" => aps = NoParams
  /\ last' = Query("key", alg, key, aps, now, NoQuery.cp,
                   IF CheckConstraints(alg, key, aps, now) THEN "permitted" ELSE "denied")
  /\ UNCHANGED <<props, next, status, constraints>>

(* permits(String, ConstraintsParameters) and permits(ConstraintsParameters). *)
PermitsCertPath(alg, cp) ==
  /\ status = "ready" /\ last = NoQuery
  /\ \E r \in PermitsCPOutcomes(alg, cp) :
       last' = Query("cp", alg, NoKey, NoParams, 0, cp, r)
  /\ UNCHANGED <<props, next, status, constraints>>

ReadResult ==
  /\ last # NoQuery
  /\ last' = NoQuery
  /\ UNCHANGED <<props, next, status, constraints>>

(* The constructor threw: there is no object to query. *)
Rejected == status = "IllegalArgumentException" /\ UNCHANGED vars

Init ==
  /\ props \in PropertyValues
  /\ next = 1
  /\ status = "parsing"
  /\ constraints = [a \in Algorithms |-> <<>>]
  /\ last = NoQuery

Next ==
  \/ ParseEntry
  \/ ParseDone
  \/ \E alg \in Algorithms \cup {""}, key \in Keys, aps \in Params \cup {NoParams}, now \in Dates :
       PermitsKey(alg, key, aps, now)
  \/ \E alg \in Algorithms \cup {""}, cp \in CPs : PermitsCertPath(alg, cp)
  \/ ReadResult
  \/ Rejected

Spec == Init /\ [][Next]_vars

-----------------------------------------------------------------------------
(***************************************************************************)
(* Reference: what the class comment and the property's documentation say *)
(* the constraints mean.  "keySize OP n" disallows the sizes s with       *)
(* s OP n; a key of size 0 is never allowed and one of unknown size is.   *)
(* An entry's conditions joined by "&" disallow only when every one of    *)
(* them fails; the entries for an algorithm disallow when any one does.   *)
(***************************************************************************)
KeySizeDisallows(op, n, s) ==
  \/ s = 0
  \/ /\ s > 0
     /\ CASE op = "==" -> s = n  [] op = "!=" -> s # n
          [] op = "<"  -> s < n  [] op = "<=" -> s <= n
          [] op = ">"  -> s > n  [] op = ">=" -> s >= n

Chains(a) == {constraints[a][i] : i \in DOMAIN constraints[a]}
AllFail(chain, Fails(_)) == \A j \in DOMAIN chain : Fails(chain[j])

(* Against a certificate path: every condition has the context it needs. *)
FailsForCP(c, cp) ==
  CASE c.cls = "KeySize"   -> cp.key # NoKey /\ ~PermitsImpl(c, cp.key)
    [] c.cls = "jdkCA"     -> cp.trusted
    [] c.cls = "DenyAfter" -> cp.date >= c.date
    [] c.cls = "Usage"     -> cp.variant \in {ToVariant(c.usages[j]) : j \in DOMAIN c.usages}
    [] c.cls = "Disabled"  -> TRUE

CertPathDenied(alg, cp) ==
  \E a \in CPAlgorithms(alg, cp) : \E ch \in Chains(a) : AllFail(ch, LAMBDA c : FailsForCP(c, cp))

(* Against a bare key or parameters: no chain anchor and no variant, so  *)
(* jdkCA and usage conditions never fail; denyAfter compares with now.    *)
FailsForKey(c, key, now) ==
  CASE c.cls = "KeySize"   -> ~PermitsImpl(c, key)
    [] c.cls = "DenyAfter" -> now >= c.date
    [] c.cls = "Disabled"  -> TRUE
    [] OTHER               -> FALSE

KeyDenied(alg, key, now) ==
  \/ alg # "" /\ ~CheckAlgorithm(alg)
  \/ ~CheckAlgorithm(key.alg)
  \/ \E ch \in Chains(key.alg) : AllFail(ch, LAMBDA c : FailsForKey(c, key, now))

(* Against AlgorithmParameters only their size is known: only keySize  *)
(* conditions can fail.                                                   *)
FailsForParams(c, aps) ==
  CASE c.cls = "KeySize"  -> ~PermitsImpl(c, aps)
    [] c.cls = "Disabled" -> TRUE
    [] OTHER              -> FALSE

ParamsDenied(alg, aps) ==
  \E ch \in Chains(alg) : AllFail(ch, LAMBDA c : FailsForParams(c, aps))

-----------------------------------------------------------------------------
ChainType ==
  {ch \in Seq([cls : {"KeySize", "jdkCA", "DenyAfter", "Usage", "Disabled"}, alg : Algorithms,
               min : JavaInt, max : JavaInt, prohibited : JavaInt, date : {0} \cup Dates,
               usages : Seq(STRING), op : Operators \cup {""}, n : JavaInt]) :
     /\ ch # <<>>
     /\ Cardinality({j \in DOMAIN ch : ch[j].cls = "jdkCA"}) <= 1
     /\ Cardinality({j \in DOMAIN ch : ch[j].cls = "DenyAfter"}) <= 1}

(* Type invariant: a parsed chain is non-empty and, as the constructor   *)
(* promises, holds at most one jdkCA and at most one denyAfter condition. *)
TypeOK ==
  /\ status \in {"parsing", "ready", "IllegalArgumentException"}
  /\ next \in 1..Len(props) + 1
  /\ \A a \in Algorithms : \A i \in DOMAIN constraints[a] : constraints[a][i] \in ChainType
  /\ last.kind \in {"none", "key", "cp"}
  /\ last.result \in {"none", "permitted", "denied", CPVE, NPE}

(***************************************************************************)
(* Every keySize constraint the constructor builds allows exactly the     *)
(* sizes its operator does not match (KeySizeConstraint's constructor and *)
(* permitsImpl together), for every bound below Integer.MAX_VALUE.  At    *)
(* the largest bound, "keySize <= MAX_VALUE" sets minSize = length + 1,   *)
(* which wraps, and the constraint disables nothing (part_005:786); the  *)
(* inputs hold that entry, and only it is left out of the claim.          *)
(***************************************************************************)
KeySizeMatchesOperator ==
  \A a \in Algorithms : \A ch \in Chains(a) : \A j \in DOMAIN ch :
    ch[j].cls = "KeySize" /\ ch[j].n < MaxInt =>
      \A s \in Sizes : PermitsImpl(ch[j], [alg |-> a, size |-> s]) <=> ~KeySizeDisallows(ch[j].op, ch[j].n, s)

(***************************************************************************)
(* permits(String, ConstraintsParameters) throws CertPathValidatorException *)
(* exactly when some entry for one of the certificate's algorithms has    *)
(* all its "&" conditions failing, whatever the HashSet's order, through  *)
(* the recursive next(cp) calls of the constraint classes.                *)
(***************************************************************************)
CertPathVerdictMatchesConjunction ==
  last.kind = "cp" /\ last.result # NPE =>
    (last.result = CPVE <=> CertPathDenied(last.alg, last.cp))

(***************************************************************************)
(* The boolean key check (permits(Set, Key), and permits(Set, String, Key, *)
(* null)) denies exactly when an algorithm is disabled outright or some   *)
(* entry for the key's algorithm has all its conditions failing for the  *)
(* key, through the recursive next(Key) calls.                            *)
(***************************************************************************)
KeyVerdictMatchesConjunction ==
  last.kind = "key" /\ last.aps = NoParams =>
    (last.result = "denied" <=> KeyDenied(last.alg, last.key, last.now))

(***************************************************************************)
(* The same for a check that also passes AlgorithmParameters: the         *)
(* parameters are denied only when every condition of some entry fails   *)
(* for them, as the class comment of Constraint says of "&".              *)
(***************************************************************************)
ParamsVerdictMatchesConjunction ==
  last.kind = "key" /\ last.aps # NoParams =>
    (last.result = "denied" <=>
       \/ KeyDenied(last.alg, last.key, last.now)
       \/ ParamsDenied(last.alg, last.aps))

====
