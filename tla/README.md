# TLA+ models of the HotSpot link resolver (jdk7u)

These modules model the method-linkage core of the HotSpot VM in this repository,
`hotspot/src/share/vm/interpreter/linkResolver.cpp`, together with the parts of
`instanceKlass` (`src/unnamed/part_001`) it reads, and check it with TLC.

## The system

| Part | Code | Role |
|---|---|---|
| Type Registry | `instanceKlass`, vtables, `transitive_interfaces()` | finalized classes: superclass, interfaces, declared methods, vtable, init state |
| Member lookup | `lookup_method_in_klasses`, `lookup_instance_method_in_klasses`, `lookup_method_in_interfaces` | finds the declaration a symbolic reference names |
| Dispatch resolver | `resolve_method`, `resolve_interface_method`, `linktime_*`, `runtime_*`, `resolve_invoke*`, `*_or_null` | link-time resolution, then selection for a receiver; result in a `CallInfo` |
| Field resolution | `resolve_field`, `check_field_accessability`, `FieldAccessInfo::set` | links getstatic/putstatic/getfield/putfield to the declaring class |
| Access checker | `check_method_accessability`, `check_field_accessability` → `Reflection::verify_field_access` | IllegalAccessError |
| Class initialization | `resolve_static_call`, `resolve_field` → `instanceKlass::initialize` | initializes the declaring class before a static call or static field access links; across threads, the init lock, waits and the error state |
| C2 post-matching hook | `PdCompile::pd_post_matching_hook` (`compile_ppc.cpp`, `compile_x86.hpp`) | after matching, connects every call that needs the TOC to the constant base node (PPC); nothing on x86 |
| Loader constraints | `check_method_loader_constraints` | LinkageError across loaders |
| Bootstrap linkage | `resolve_invokedynamic`, `resolve_dynamic_call` | first resolution of a call site runs the bootstrap method |
| Method handles | `lookup_polymorphic_method`, `resolve_invokehandle` | signature-polymorphic intrinsics |
| Loader dependencies | `classLoaderDependencies.cpp` | per-loader list of loaders it depends on, appended concurrently |
| Disabled algorithm constraints | `sun.security.util.DisabledAlgorithmConstraints` (src/unnamed/part_005) | parses `jdk.certpath.disabledAlgorithms`-style properties into `&` chains and answers permit checks for keys, parameters and certificate paths |
| Host name checking | `sun.security.util.HostnameChecker` (src/unnamed/part_004) | decides whether a certificate's alternative names or common name cover the host a TLS or LDAP client expects; uses IPAddressUtil's literal tests |
| IP address literals | `sun.net.util.IPAddressUtil` | parses IPv4/IPv6 literals to bytes; checks the host, user info and authority of a URL, and a host string, against character masks |
| TLS server_name extension | `sun.security.ssl.ServerNameExtension` (src/unnamed/part_003) | builds the SNI extension from the client's host names, writes it to the handshake stream, and reads a peer's back |
| Calendar builder | `CalendarBuilder` in `DisabledAlgorithmConstraints` (src/unnamed/part_005) | a backport of `Calendar.Builder`; `denyAfter` uses it to turn a date into a Calendar |

How they interact. The interpreter (or the compiler, through the `*_or_null`
entry points) asks the resolver to resolve a constant-pool reference. The
resolver reads the registry: no lock, because the registry only grows. Its one
write is the class initialization that static linkage triggers. `CallInfo` is a
local of the caller, who copies it into the constant-pool cache.

The hard behaviours are these:
- The selection rules (vtable index, miranda index, the ACC_SUPER re-lookup,
  the instance-only lookup for interfaces) must agree with JVMS for every mix
  of private, static, final, package, protected and abstract declarations.
- Initialization can fail part way up a superclass chain, and that failure is sticky.
- Concurrent resolution of one invokedynamic site.
- Concurrent appends to a loader's dependency list.
- Concurrent creation of one method-handle intrinsic, and the compiler
  reading a call site while the interpreter links it.

Per component, the property that matters is stated below with the run that
checks it. PROJECT.json lists every component, including those not modelled,
and every hazard at its source line.

## Modules

- **`KlassHierarchy`**: the registry. `decl[k][n]` is the kind of the
  declaration of method `n` in class `k`: `none`, `public`, `protected`,
  `package`, `private`, `final`, `static` or `abstract`. One kind summarises the
  access flags that matter. The constants fix the hierarchy: superclass,
  local interfaces and packages.
  - `UncachedLookupMethod` and `LookupMethodInAllInterfaces` are the
    instanceKlass lookups.
  - `TransitiveInterfaces` is the `transitive_interfaces()` order.
  - `VTableOf` (tabulated once as `Vtables`, the initial value of the
    variable `vtable`), `VtableIndex` and `IndexOfMiranda` model the vtable
    that `klassVtable` builds. That code is outside `src/`, so they are written from
    JVMS: an override takes the inherited slot; a new virtual method appends a
    slot; statically bound methods get no slot; a class that lacks an
    interface method gets a miranda slot.
  - `Loadable` restricts `decl` to class files the class-file parser accepts.
- **`LinkResolver`**: one operator per resolver function, each under its C++ name.
  - `ResolveMethod`, `ResolveInterfaceMethod`, the `Linktime*`, `Runtime*` and
    `Resolve*Call` operators return a result record: an error or a method.
  - The actions are `ResolveInvokeStatic` (with `InitializeOutcomes`),
    `ResolveInvokeSpecial`, `ResolveInvokeVirtual`, `ResolveInvokeInterface`,
    `ResolveVirtualCallOrNull`, `ResolveInterfaceCallOrNull`,
    `ResolveVirtualVtableIndex`, `ResolveStaticCallOrNull`,
    `ResolveSpecialCallOrNull`, `LinktimeResolveVirtualMethodOrNull`,
    `LinktimeResolveInterfaceMethodOrNull` (the compiler's entry points, which
    never initialize and turn an exception into NULL) and `ConsumeCallInfo`.
  - `last` holds the current `CallInfo` together with its inputs.
  - `initState` is `_init_state`.
  - `clinitRuns` counts `<clinit>` executions.
  - An out-of-range vtable read, and the NULL `super()` dereference, become
    the outcome `VMCrash`.
- **`MC_LinkResolver`**: the hierarchy that is checked.
  - Object; abstract A implements interface I; B extends A; C extends B, all in
    package p1.
  - X extends B in package p2 and declares nothing: it is the caller outside
    the package.
  - One method name. Every class may declare it with every kind a loadable
    class file allows. Init enumerates all 1296 such registries.
  - Callers are C (same package) and X (another package).
  - Receivers are the concrete classes and null.

- **`FieldResolver`** (extends `LinkResolver`): `resolve_field`.
  - `fdecl[k][f]` is the field `f` that class `k` declares: its access, and
    whether it is static and final (`NoField` when it declares none).
  - `FindField` is `instanceKlass::find_field` (JVMS 5.4.3.2: the class, its
    superinterfaces recursively, then its superclass). That code is outside `src/`.
  - `LinkFieldError` is the checks of `resolve_field` in the code's order:
    NoSuchFieldError, `check_field_accessability`, the static/instance
    mismatch, a put to a final field from another class.
  - `ResolveField` then initializes the declaring class (`FieldInitKlass`)
    for a static access that is not `check_only`, with the same
    `InitializeOutcomes` as static calls, and records the `FieldAccessInfo`
    (`AccessOutcome`) in `lastField`.
  - `ResolutionInit`/`ResolutionNext` put method and field resolution in
    one specification: the registry either has no fields (`Init` of
    `LinkResolver`) or one of the field layouts, and one resolution at a time
    runs, each after the other's result was consumed. Both share `initState`,
    so a static call and a static field access see each other's initializations.
- **`MC_LinkResolver`** also gives the field layouts: A, B and C each declare
  field `f` as a static field of each access, a public static final field, a
  protected final instance field, or not at all; I declares a public static
  final field or nothing (`MCFieldRegistries`, 686 layouts).

- **`LoaderDependencySet`**: what `ClassLoaderDependencies` promises. Each
  loader has a set of dependencies, and recording adds one loader that is
  neither the boot loader nor on the from-loader's parent chain.
- **`LoaderDependencies`**: `classLoaderDependencies.cpp`, for concurrent threads.
  - `deps[l]` is element 0 of each node of `l`'s list, in list order. The head
    node starts with a NULL element 0.
  - `RecordDependency` is the checks of `record_dependency`.
  - `WalkElement` and `WalkNext` are the two reads of one iteration of the
    unlocked walk in `add`, so other threads can write between them.
  - `UnlockedRead` models the missing barrier. With `WeakMemory` (TRUE in
    `security_utilities`), either read may return the NULL the field held before
    another thread's write. That is what a weakly ordered processor such as
    the PPC ports can show.
  - `Allocate` is `new_objectArray`, which may throw OOM.
  - `LockedAdd` is `locked_add` as one step. Every write to a list happens
    under its head's monitor, and nothing else waits on that monitor.
  - The refinement mapping `Recorded` maps the lists to `LoaderDependencySet`.
- **`MC_LoaderDependencies`**: three threads and three loaders (L2 a child of
  L1). Every thread picks any pair of loaders or the boot loader. It is
  checked inside `MC_SecurityUtilities` (see there).

- **`MethodHandleLinkage`**: the linkage of signature-polymorphic methods
  (`MethodHandle.invokeExact`, `invoke`, `invokeBasic`, `linkToStatic`) in
  `linkResolver.cpp`. Each thread resolves one call site, `[klass, name,
  sig, caller]`, and `pc` follows the code:
  - `Start` is the bytecode's entry. A Java thread reaches
    `resolve_invokehandle` (`via = "handle"`) for a rewritten invokehandle,
    and `resolve_method` (`via = "method"`) for linkToStatic and ordinary
    methods. A compiler thread reaches `resolve_method_statically`.
  - `ResolveMethodStatically` takes the method the site's cache entry holds
    (`cpCache`, published by the interpreter) and otherwise falls back to
    `resolve_method`.
  - `ResolveMethod` is lookup in the class hierarchy: `LookupMethodInKlasses`
    skips the declared natives. Then comes `lookup_polymorphic_method`.
  - `LookupPolymorphicMethod` works out the intrinsic's key (`IntrinsicKey`,
    with `KeepLastArg`) and finds the intrinsic in the shared table
    (`intrinsics`). Otherwise it creates one outside the lock
    (`MakeIntrinsic`, which may throw OOM) and installs it under the lock
    (`InstallIntrinsic`); the first installed wins.
  - For invokeExact and invoke on a Java thread only:
    - `EnsureNatives` is `resolve_or_fail` of MethodHandleNatives;
    - `FindMethodHandleInvoker` is the Java up-call, which returns an
      invoker and an appendix.
  - `Finish` is the rest of `resolve_handle_call` or `resolve_method`
    (`LinkError`):
    - the exception propagates, or becomes the cause of NoSuchMethodError;
    - the access check follows;
    - the interpreter then publishes a Java thread's result in the cache
      entry, unless another thread did first.
  - The table and the cache entry are outside `src/` and are written from
    the spec. `res[t].seen` only records the entry the compiler thread
    found when it began.

- **`CallSite`**: what linking one invokedynamic site promises. A
  resolution either returns the site's target, binding it first if the site is
  unbound, or fails with a translated error. The binding never changes.
- **`IndyCallSite`**: `resolve_invokedynamic` and `resolve_dynamic_call` for
  threads that run the same instruction.
  - `f1` is the cache entry's f1.
  - `ResolveInvokedynamic` is the first unlocked `is_f1_null` test.
    `ResolveBootstrapSpecifier` may throw. `CheckBound` is the second test.
  - `ResolveDynamicCall` runs the bootstrap method. It either gets a fresh call
    site, or throws and `Translate` maps the exception.
  - `SetDynamicCall` publishes, first writer wins. That code is outside
    `src/` and is modelled from spec §3 and §4.5.
  - A thread whose resolution failed executes the instruction again, up to
    `MaxAttempts`.
- Checked in `vm_support` with three threads, two executions each.
- **`DisabledAlgorithmConstraints`** models the security utility, a single-threaded
  component separate from the resolver.
  - `props` is the property value: a sequence of entries. Each entry is an
    algorithm and a sequence of conditions. `ParseEntry` is one iteration of
    the constructor's loop over entries. `ParseChain` folds `ParseCondition`
    over the conditions with `FoldLeft`. Each condition becomes a record built
    by `KeySizeConstraint`, `DenyAfterConstraint` or `UsageConstraint`, or the
    parse fails with IllegalArgumentException. Parsing fails on an unknown
    operator, an unknown keyword, or a second `jdkCA` or `denyAfter` in one entry.
  - `KeySizeBounds` computes `minSize`/`maxSize` in `IntBits`-bit
    two's-complement arithmetic (`Wrap`), as the code does in 32 bits.
  - `PermitsKey` stands for `permits(primitives, key)` and
    `permits(primitives, alg, key, params)`. `PermitsCertPath` stands for
    `permits(ConstraintsParameters)`. Each stores its outcome in `last`, which
    `ReadResult` consumes.
  - The chain walks are `ChainPermitsKey` and `ChainPermitsCP`, both RECURSIVE.
    They keep each constraint class's early returns: jdkCA and usage return
    without recursing, and keySize skips a missing key.
  - `PermitsCPOutcomes` takes every order of the certificate's algorithms,
    because the code iterates a HashSet.
  - The reference definitions (`FailsForKey`, `FailsForCP`, `FailsForParams`)
    state the documented meaning: an entry disallows when all its conditions fail.
- **`MC_DisabledAlgorithmConstraints`**:
  - algorithms RSA and EC; key sizes -1..3 (-1 is "unknown");
  - dates 1..3;
  - the four variants;
  - every RSA entry of at most two conditions over these values, including a
    bad operator and a bad keyword;
  - pairs of entries for RSA and EC.

- **`IPAddressUtil`** (`sun/net/util/IPAddressUtil.java`):
  - A string is a sequence of UTF-16 code units. `Digit` is `Character.digit`:
    ASCII, Arabic-Indic and fullwidth digits and letters. `ParseInt` and
    `ParseLong` follow `Integer.parseInt` and `Long.parseLong`, sign included.
    `SplitOn` is `String.split(regex, -1)`.
  - `TextToNumericFormatV4` follows the switch on the number of parts, with
    the per-part bounds (`FitsIn`).
  - `TextToNumericFormatV6` is the character loop (`V6Step`, `V6Loop`,
    RECURSIVE). The step record holds `i`, `j`, `val`, `saw_xdigit`, `colonp`,
    `curtok` and `dst`. `V6Finish` does the in-place move of the bytes after
    `::` and the IPv4-mapped conversion.
  - The masks are the code's hex literals (`HexLong` turns one into its set of
    bits). `Scan` and `ScanOthers` (with `BinarySearch`, from
    `java.util.Arrays`) are the two `scan` methods.
  - `CheckAuthority`, `CheckExternalForm` and `CheckHostString` return
    `Null`, a message record, or an exception record. `Null` passed as a
    string is a `NullPointerException`.
  - Each public entry point is an action that stores its result in `last`,
    which `ReadResult` consumes.
  - The reference definitions state the meaning: `V4Ref` (1 to 4 decimal
    parts, with the last part filling the remaining bytes); `V6Ref` (RFC 4291
    text forms, with an optional IPv4 tail and zone); and, for the checks,
    the character classes that the code comments name.
- **`MC_IPAddressUtil`** builds the inputs from parts, joined by `.` or `:`.
  The parts sit at the bounds the code tests.
- **`HostnameChecker`** (`sun/security/util/HostnameChecker.java`, in src/unnamed/part_004)
  extends `IPAddressUtil`:
  - `HostnameMatch` is `match(String, X509Certificate)`. It chooses
    `MatchIP` or `MatchDNS` with `IsIpAddress`, which is IPAddressUtil's two
    literal tests. A certificate is `[san, cn]`. `san` is `Null` or the
    ordered `[type, value]` list of `getSubjectAlternativeNames`; `cn` is the
    most specific common name.
  - `MatchIP` compares with `equalsIgnoreCase`, then with
    `InetAddress.getByName` on both literals (`SameAddress`).
  - `MatchDNS` runs `CheckHostName` on the expected name, then tries the
    dNSNames in order. When there are none (`FoundDNS`), it checks the common
    name with `Normalizer.isNormalized` (`IsNFKC`, over the inputs' code
    units) and then matches it.
  - `CheckHostName` is the local `toASCII` with `USE_STD3_ASCII_RULES`:
    `SearchDots`, `ToASCIILoop` and `ToASCIIInternal`. Nameprep and Punycode
    apply to non-ASCII labels only; no input reaches them, and an `Assert`
    marks the branch.
  - `IsMatched`, `MatchAllWildcards` (TLS), `MatchLeftmostWildcard` (LDAP)
    and `MatchWildCards` (`MatchWildCardsLoop`, RECURSIVE) follow the code.
    `Tokens` is `StringTokenizer` on `.`.
  - `CallMatch` adds the `match` call to IPAddressUtil's `Next` (`HCNext`).
    `last` holds the arguments and `thrown`: `Null`, or CertificateException.
  - The reference definitions split labels at every separator `toASCII`
    knows (`RefLabels`), take LDH labels (`LDHLabel`), and match `*` against
    any fragment of one label (`Glob`, RECURSIVE). `RefTLS`, `RefLDAP`,
    `RefDNS` and `RefIP` state the RFC rules.
- **`MC_HostnameChecker`** extends `MC_IPAddressUtil`. Names use the labels
  a, b, ab, A, -a and abab (over `MAX_LABEL_LENGTH` = 3), and the malformed
  forms: a trailing dot, the root `.`, the empty name, an empty label and a
  space. IP names are IPv4 (full and one-part), IPv6, upper-case hex and
  IPv4-mapped. Templates put `*` alone, first, last and inside, in the first
  label and in a later one, and include invalid ones. Certificates combine no
  extension, an empty list, one dNSName, an iPAddress, mixed lists, and four
  common names, one of them not NFKC-normalized.
- **`ServerNameExtension`** (`sun/security/ssl/ServerNameExtension.java`, in
  src/unnamed/part_003) extends `HostnameChecker`; its calls share `last`.
  - `Construct` is the client constructor: it drops null and empty names,
    builds a `ServerName` (`NewServerName`) per name, and throws
    SSLProtocolException for more than one name or an empty list.
  - `Parse` is the stream constructor, with `ReadServerName` and the
    RECURSIVE `ReadNames` for its `while (remains > 0)` loop. `Send` and
    `ExtLength` are `send` and `length()`. `UTF8` and `DecodeUTF8` model
    `getBytes("UTF8")` and `new String(data, "UTF8")`, with U+FFFD for a
    malformed byte. `Int16` and `Bytes16` are `putInt16` and `putBytes16`.
  - `CallServerNameExtension` and `CallParse` call the two constructors.
    `CallExchange` builds an extension, sends it, and has the peer read it
    back, followed by nothing or by another extension.
  - The reference `RefFramedEntries` (with the RECURSIVE `RefEntries`) reads the
    framing of the RFC 4366 `ServerNameList` the class comment quotes (not its
    non-empty HostName or one name per type).
- **`MC_ServerNameExtension`**: host-name lists of up to two names from null,
  empty, ASCII, Latin-1 and a name with the ideographic full stop (3 UTF-8
  bytes). The parse inputs are well-formed lists of one or two entries with
  the list length right or one too large, the extension length one too
  small, right or one too large, and short streams.
- **`CalendarBuilder`** (src/unnamed/part_005, lines 965-1490): the builder,
  with its fields as a record in `builder`.
  - `InternalSet`, `AllocateFields`, `IsInstantSet`, `IsSet` and
    `IsValidWeekParameter` are the private helpers. The stamps and
    `nextStamp` are `IntBits`-bit ints (`Wrap`).
  - `SetInstant`, `Set`, `SetFields` (with the loop `SetPairs`), `SetDate`,
    `SetWeekDate`, `SetTimeZone`, `SetLenient`, `SetCalendarType`,
    `SetLocale` and `SetWeekDefinition` return the new builder and what was
    thrown.
  - `Build` fills in the default locale and zone, chooses the type, and
    gives a `Calendar` record: the instant, or the `cal.set` calls of its
    stamp loop (`Replay`) and the week date. The Calendar classes themselves
    are not modelled.
  - The caller creates a builder (`New`), calls any method up to `MaxCalls`
    times, and drops it (`Drop`). `api` records what the calls that returned
    asked for, from their arguments alone.
- **`MC_CalendarBuilder`**: a US, a Thai and a `ca-japanese` locale; every
  class of calendar type `setCalendarType` sees; `IntBits = 4`.
- **`MC_SecurityUtilities`** runs IPAddressUtil, HostnameChecker,
  ServerNameExtension and a CalendarBuilder together. A builder lives only
  while no utility call is pending, and a call starts only when no builder
  exists. The parts share no state and each is used by one thread, so
  this reaches every state of each part.
  - The same run has a second initial stage, `"deps"`. In it, the threads of
    `MC_LoaderDependencies` record dependencies (`LdStep`, with `Terminated`
    once all have returned). The utilities meanwhile stay in their initial
    states, and in stage `"sec"` the loader lists stay in theirs.
  - So the run checks the two groups side by side, each over exactly the
    states it reaches alone. `AllRecordingsReturn` is stated for the runs
    that start in `"deps"`.
  - A third initial stage, `"mh"`, runs `MethodHandleLinkage` (instance
    `MHL`) over the call sites `MhSites`, in the same way.

- **`PdCompile`**: `PdCompile::pd_post_matching_hook`, which C2 calls once
  after matching (`compile_ppc.cpp`, `compile_x86.hpp`). On x86 it is empty
  (`PdPostMatchingHookX86`). On PPC (`PdPostMatchingHook`, then `WalkStep`)
  it walks the graph from the root with `Node::walk`. The walk is depth first
  and visits each node once; `stack` holds the `walk_` activations and
  `visited` its VectorSet. `VisitNodeAndConnectToc` is the callback. For a
  Mach node needing the TOC it gets `MachConstantBaseNode` (created on first
  use). A call of one of the four `TocCallRules` then gets that node on its
  `ReturnAdr` input and the register mask `MaskFor` its rule. `asserted`
  records the `in(ReturnAdr)->is_top()` assertion. The walk reads a node's
  inputs after the callback has rewired them, as the code does. `Node::walk`
  and the constant base node are outside `src/` and are written from their
  documented behaviour.
- **`MC_PdCompile`**: eight nodes. The graphs have a loop through a leaf
  call, a TOC load reached from two calls, a call reached only over a
  precedence edge, a dead TOC call, a Mach node needing no TOC, and a graph
  without TOC users. The call rules range over the leaf and dynamic rules.
- **`ClassInit`**: class initialization from several threads, the procedure
  the comment of `instanceKlass::ClassState` points to (JVMS 2.16.5). The
  state predicates `IsInitialized`, `IsBeingInitialized`, `IsInErrorState`
  and `IsReentrantInitialization` are those of `instanceKlass`
  (part_001:430-434). `initialize_impl` is outside `src/`.
  - Each thread does one static access (`StaticAccess`). The call stack of
    `initialize` is a sequence of frames.
  - `LockAndCheck` is steps 1-6 under the class's init lock: wait while
    another thread initializes the class (`MustWait`), return on a recursive
    request or an initialized class, fail in the error state, else claim the
    class (`being_initialized`, `_init_thread`).
  - `InitSuper` and `SuperDone` initialize the superclass; `Clinit` runs the
    initializer. A `<clinit>` is the sequence of classes its static linkage
    initializes (`prog.needs`), and whether it then throws (`prog.fails`).
    `Fail` records an error. The outcome is written under the lock and wakes
    the waiters (`OutcomeState`).
- **`MC_ClassInit`**: threads t1, t2; Object, A, B (subclass of A), C. The
  programs: no dependencies; A needs C; A and C need each other (a cycle);
  A needs its subclass B. C's initializer throws or not. Each thread
  accesses any of A, B, C.
- **`LoaderConstraints`**: the loader constraints a resolution adds
  (JVMS 5.3.4).
  - `CheckMethodLoaderConstraints` and `CheckFieldLoaderConstraints` are the
    two checks of `linkResolver.cpp`. They pick the loaders to compare: the
    current class's and the method holder's, or the pool holder's and
    `sel_klass`'s.
  - `CheckSignatureLoaders` is one turn of `check_signature_loaders`: one
    constraint for one class name, under `SystemDictionary_lock`. Other
    threads can load classes between two names. A failing name throws
    LinkageError; the constraints added before it stay. After the last name,
    a static call initializes the holder and checks again
    (`resolve_static_call`).
  - `StartResolution` follows `resolve_field`'s order. A static field access
    initializes `sel_klass` (`Initialize`) before its loader check.
  - `CanAddConstraint`, `AddConstraint` and `LoadClass` are
    `SystemDictionary`'s constraint table and its check when a class is
    loaded. That code is outside `src/`; they are written from JVMS 5.3.4.
  - `links` records the loader pairs that linked accesses rely on, and
    `initializer` which resolution ran each `<clinit>`.
- **`MC_LoaderConstraints`**: loaders L1, L2, L3 and class names T, U. L1
  and L2 define T each on their own; L3 gets L1's T; all get L1's U. Two
  threads each resolve one member of L3's class from a class of L1 or L2:
  - a method with signature (U, T), referenced through L3's class or
    through a subclass in the caller's loader;
  - a static call, a static field or an instance field of type T.
- **`MC_VMSupport`** runs four independent services in one specification,
  one after the other: loader constraints, the compilation, the Java
  threads of `MC_ClassInit`, then the invokedynamic threads of
  `IndyCallSite`. When a stage ends, its state is reset to one value: the
  resolution results are dropped (`EndLoaders`), the `Compile` object dies
  (`EndCompile`), and the initialized classes are discarded (`EndThreads`).
  The parts share no state, so each reaches the same states as alone, and
  the state counts add up. The invokedynamic stage, last, is not reset, so
  its refinement holds across the whole run.

The reference for selection, `JVMSInvokeVirtual`, `JVMSInvokeInterface` and
`JVMSInvokeSpecial`, is written from the JVMS instruction descriptions over
declarations only, with no vtables. It uses the JVMS SE 8 wording of
overriding: not private, and accessible from the overrider. For invokespecial,
the ACC_SUPER re-lookup applies when the class named by the reference is a
strict superclass of the caller.

## Runs

| Run | Expect | What it shows |
|---|---|---|
| `lr_dispatch` | pass | Method and field resolution in one specification. Each invocation kind agrees with JVMS selection on all 1296 registries, for both callers and all receivers (`DispatchMatchesJVMS`, `TypeOK`). The compiler's `*_or_null` entry points are checked against the same reference. A static call links only when the declaring class chain is fully initialized (`InitializedBeforeStaticCall`); so does a static field access, also after an initializer failed (`InitializedBeforeStaticFieldAccess`). Over the 686 field layouts a put to a final field links only from the declaring class (`FinalFieldPutOnlyFromDeclaringClass`); a protected static field is accessible from any subclass of its holder, as `verify_field_access` allows. Only invokestatic and a static field access that is not `check_only` initialize anything, and only the chain of the declaring class (`InitTargetsDeclaringClass`, an action property). |
| `vm_support` | pass | Four VM services one after the other. **Loader constraints:** two threads resolve methods and fields across three loaders while classes load in any order. Any two loaders tied by a chain of linked accesses see the same class for every name in those signatures (`LinkedTypesAgree`). This covers the spec's L1/L2/L3 scenario: the second, conflicting access fails. **Post-matching hook:** on every graph and platform, when the hook is done, exactly the reachable TOC calls have the constant base node on `ReturnAdr` and the mask of their rule. The constant base node exists exactly when a reachable node needs the TOC, and nothing else changed. The `is_top` assertion never failed, although the walk meets a call over several edges and around a loop (`HookConnectsEveryTocCall`). **Class initialization, two threads:** no `<clinit>` starts twice. A normal return leaves the class initialized (or is the recursive request), and an error return leaves it in the error state (`InitializerRunsOnceAndResultsHold`). A class is `being_initialized` exactly while its `_init_thread` holds it (`WaitsOnlyOnLiveInitializer`). Every static access completes when the initializers' dependencies are acyclic (`EveryAccessCompletes`). With the A↔C cycle two threads do deadlock, as the JVM does, so deadlock checking is off. **invokedynamic, three threads:** under every interleaving and bootstrap outcome, the site refines `CallSite` (`ImplementsCallSite`, `IndyTypeOK`). About 148k distinct states, 1 min. |
| `lr_object_static_crash` | violation | java.lang.Object declares a static `m` (like `registerNatives()V`) and interface I declares an abstract `m`. Then `invokeinterface I.m` on a B receiver skips Object's static `m` and calls `uncached_lookup_method` on Object's NULL super (linkResolver.cpp:218). JDK 8 fixed this (JDK-8024804). |
| `lr_acc_super` | violation | No caller has ACC_SUPER. With the product default `AllowNonVirtualCalls=false`, `invokespecial Object.m` from C still re-looks-up from B and calls `B.m`. Spec §4.2 and JVMS SE 7 call `Object.m`. |
| `lc_field_init_order` | violation | A getstatic from a class of L2 names a field of type T declared by L3's class, and L2 and L3 see different T. `resolve_field` runs `sel_klass->initialize` (linkResolver.cpp:676) before `check_field_loader_constraints` (line 678). So L3's `<clinit>` runs, and then the access fails with LinkageError (`InitializesOnlyLinkedAccess`). `resolve_static_call` checks first, with the comment that initialization "should only happen if everything is ok" (line 706); JVMS 5.5 initializes only when the resolved instruction executes. |
| `dac_constraints` | pass | Over every RSA entry of up to two conditions, and pairs of RSA and EC entries, with `IntBits = 4`: a chain holds at most one jdkCA and one denyAfter (`TypeOK`). A keySize constraint allows exactly the sizes its operator does not match, for every bound but `keySize <= Integer.MAX_VALUE`, which is among the entries and where `minSize` wraps so the entry disables nothing (`KeySizeMatchesOperator`). The certificate-path check throws exactly when some entry's conditions all fail, whatever the HashSet order (`CertPathVerdictMatchesConjunction`). The key check denies exactly when some entry fails (`KeyVerdictMatchesConjunction`). 426k distinct states, about 2 min with coverage. |
| `dac_params` | violation | `permits(alg, AlgorithmParameters)` consults only the first constraint of each entry (part_005:386). An entry `RSA keySize < n & jdkCA` denies small RSA parameters even though jdkCA does not fail. With the conditions swapped, the same entry permits them. The class comment (lines 438-445) says all conditions must fail. |
| `security_utilities` | pass | IPAddressUtil, HostnameChecker, ServerNameExtension and CalendarBuilder in one run. The IPv4 parser agrees with `V4Ref` on every unsigned ASCII string of its inputs (`V4MatchesDottedDecimal`); the inputs also hold `+1` and an Arabic-Indic digit, which the code accepts and the claim leaves out. The IPv6 parser agrees with `V6Ref` on every ASCII string without a zero-padded five-digit group: `::`, IPv4 tails, 5-digit groups over 0xffff, zones and trailing colons (`V6MatchesRFC4291`); the padded group and an Arabic-Indic digit, both accepted by the code, are inputs the claim leaves out. No byte exceeds 255 (`SNITypeOK`). `checkAuthority` and `checkExternalForm` reject exactly the characters the masks' comments list, and name the first (`AuthorityCheckRejectsCommentedCharacters`). So does `checkHostString`, including the OTHERS code units (`HostStringCheckRejectsCommentedCharacters`). `match` for TLS, on 48 names and 96 certificates, accepts a host name exactly as RFC 2818 wildcard matching does, with any dNSName ruling out the common name, for names without the ideographic separators `hc_label_separator` is about (`DNSNameMatchFollowsRFC2818`). It accepts an IP literal exactly when an iPAddress name is the same address in any text form (`IPNameMatchesOnlyIPAltNames`). The SNI client constructor accepts exactly one non-empty name, and the peer reads it back from what `send` wrote, whose size is `length()` (`SNIClientHostNameReachesPeer`). The peer's constructor accepts exactly the lists whose length fields frame their entries, among them an empty HostName and two host_name entries, which RFC 4366 rules out (`SNIParseAcceptsExactlyFramedLists`). A CalendarBuilder whose calls did not throw builds the instant, or the last value of each field in write order and the week date (`BuildGivesRequestedCalendar`); its stamps stay in range (`CBTypeOK`). In the `"deps"` stage, with allocation failures and weakly ordered unlocked reads allowed: a thread that returns normally finds its dependency in the list (`DependencyRecorded`), the lists refine the abstract set (`ImplementsDependencySet`), every thread returns (`AllRecordingsReturn`), and the walks stay on their lists (`LdTypeOK`). In the `"mh"` stage, two Java threads and a compiler thread link six call sites, where every allocation, class load and up-call may fail. Every method linked or published is the one JSR 292 gives the site: the invoker of its signature, or the intrinsic over its basic signature, reachable only from java.lang.invoke. Two threads linking intrinsics with one key link the same method, even when both created it (`LinkedMethodMatchesCallSite`). What the compiler links agrees with the published entry, and a site published before the compiler began never fails there (`CompilerAgreesWithInterpreter`, `MHTypeOK`). 51k + 76k + 38k distinct states, about 40 s. |
| `ip_null_host` | violation | `checkAuthority` on a URL with a null host throws NullPointerException in `checkHost` (line 400). So its own `h == null && u == null` branch (line 448) is dead. |
| `cb_instant_and_fields` | violation | The class comment says setting both the instant and individual fields throws IllegalStateException (`InstantAndFieldsNotMixed`). `setInstant(5)` then `setWeekDate(0, 1, 2)` both return normally, since `setWeekDate` (part_005:1200) does not test `isInstantSet` as `set` and `setFields` do. `allocateFields` then resets the stamp counter, so later `set` calls pass too, and `build` ignores the instant. Found at depth 4. |
| `cb_default_locale` | violation | Under a th_TH default locale, `new CalendarBuilder()...build()` picks the type `buddhist` and then throws IllegalArgumentException, since build creates only gregory and iso8601 calendars (part_005:1388). `setCalendarType("japanese")` and a `ca-japanese` locale fail the same way. `DenyAfterConstraint` (line 629) builds its date this way, so every `denyAfter` entry fails to parse under that locale. |
| `hc_label_separator` | violation | The name `b\u3002a.b` (U+3002 is the ideographic full stop) passes `checkHostName` as the three labels b, a, b, because `toASCII` splits at U+3002. But `matchAllWildcards` splits with `StringTokenizer(name, ".")` (part_004:317) and sees two tokens. So the certificate name `*.b` matches it, with `*` covering two labels. The method comment, after RFC 2818, says `*.a.com` does not match `bar.foo.a.com`. LDAP's `matchLeftmostWildcard` behaves the same. |

Each property of a passing run has a mutant in PROJECT.json: a plausible
slip in the mapped code that TLC then catches.

| Mutant | Property that catches it |
|---|---|
| The instance lookup does not skip static methods | DispatchMatchesJVMS |
| A receiver without the method yields a NULL target | TypeOK |
| Only `linked` classes get initialized, so an erroneous class links | InitializedBeforeStaticCall |
| The referenced class is initialized instead of the holder | InitTargetsDeclaringClass |
| The exception of `sel_klass->initialize` is not checked | InitializedBeforeStaticFieldAccess |
| The final-field check compares the referenced class with the caller | FinalFieldPutOnlyFromDeclaringClass |
| The unlocked walk steps past the last node | LdTypeOK |
| `locked_add` always writes element 0 of the last node | DependencyRecorded |
| The parent walk checks only the from-loader itself | ImplementsDependencySet |
| The unlocked walk never advances | AllRecordingsReturn |
| The second `is_f1_null` test is dropped | IndyTypeOK |
| A LinkageError from the bootstrap method is not wrapped | ImplementsCallSite |
| The parser never sets `jdkCALimit`, so an entry may hold two jdkCA | TypeOK (DisabledAlgorithmConstraints) |
| `keySize <= n` sets `minSize = n` instead of `n + 1` | KeySizeMatchesOperator |
| A failing keySize decides the certificate check without consulting the rest of the chain | CertPathVerdictMatchesConjunction |
| A failing keySize decides the key check without consulting `next` | KeyVerdictMatchesConjunction |
| `dst[j++]` stores a group's high byte unmasked | SNITypeOK |
| A part is allowed to equal the bound (`<= 256^w`) | V4MatchesDottedDecimal |
| A trailing `:` at the end of the address is not rejected | V6MatchesRFC4291 |
| `L_EXCLUDE` leaves out `#` and `/` | AuthorityCheckRejectsCommentedCharacters |
| The OTHERS range guard is `c > c0`, so the first OTHERS unit passes | HostStringCheckRejectsCommentedCharacters |
| `matchDNS` falls through to the common name when no dNSName matched | DNSNameMatchFollowsRFC2818 |
| `isIpAddress` tests for IPv4 literals only | IPNameMatchesOnlyIPAltNames |
| `ServerName`'s `length` leaves out the type byte | SNIClientHostNameReachesPeer |
| The stream constructor does not compare the list length with `len` | SNIParseAcceptsExactlyFramedLists |
| `isValidWeekParameter` has no upper bound | CBTypeOK |
| `resolve_handle_call` links although the lookup threw (no `CHECK`) | MHTypeOK |
| `keep_last_arg` is never set, so linkToStatic's MemberName is erased | LinkedMethodMatchesCallSite |
| `resolve_method_statically` ignores the published cache entry | CompilerAgreesWithInterpreter |
| `internalSet` has no overflow test | BuildGivesRequestedCalendar |
| The method check compares with `resolved_klass`'s loader, not the method holder's | LinkedTypesAgree |
| `MaskFor` gives the leaf mask to `CallLeafDirect_Ex` only | HookConnectsEveryTocCall |
| The recursive-request test accepts any initializing thread | InitializerRunsOnceAndResultsHold |
| A failed initializer leaves the class `being_initialized` | WaitsOnlyOnLiveInitializer |
| `is_being_initialized` tests `_init_state >= being_initialized` | EveryAccessCompletes |

### Bounds and why they are enough

Six classes give a chain of depth three below Object, so an override, an
override of an override, and an inherited method two levels up all occur. They
also give an abstract class with a miranda from its interface, and a subclass
in another package.

Every kind on every class covers these cases:
- private and static declarations that shadow;
- final methods that cannot be overridden;
- abstract methods reached through concrete receivers;
- protected access from another package.

A second method name would only add independent copies of the same cases. The
`<init>` paths (name checks) are not reachable with the single name `m`.

Static initialization explores every order of static calls, and every
initializer in a chain may fail.

For `DisabledAlgorithmConstraints`:
- Key sizes -1..3 reach every boundary of every operator with bound 1 or 2:
  below, at and above each bound. The unknown size (-1) and the refused size 0
  are included.
- `IntBits = 4` keeps the int width where overflow matters. One RSA entry
  is `keySize <= MAX`, where `minSize` wraps; `KeySizeMatchesOperator`
  leaves that one entry out (a hazard in PROJECT.json).
- Two-condition entries cover every pair of condition kinds in both orders,
  and the early returns of each kind meet every other kind.
- Three dates cover a denyAfter date before, at and after "now".

For `IPAddressUtil`:
- `INADDR16SZ` is 8 instead of 16, so a full IPv6 address has 4 groups and
  `::` can stand for one group or more. Every branch of the loop is reached
  with 4 groups. The IPv4-mapped test is scaled the same way.
- IPv4 parts sit at 255/256, 65535/65536 and 16777215/16777216, for 1 to 3
  parts over the wide set and 4 to 5 parts over the narrow set. TLC integers
  stop at 2^31-1, so the one-part bound 0xffffffff is not reached.
- IPv6 groups: empty, one digit, `ffff`, `fffff` (overflow), a non-digit, and
  full and short IPv4 tails, a zero-padded five-digit group, which the code
  (like `inet_pton`) accepts and RFC 4291 does not, and an Arabic-Indic
  digit. IPv4 parts include `+1` and that digit. The reference properties
  leave the signed, non-ASCII and padded inputs out by name.
- The URL and host-string characters sit at every mask's edges and at the
  first, last and outside neighbours of OTHERS. The passing run's URLs all
  have a host, and `ip_null_host` shows why.

For `HostnameChecker`:
- `MAX_LABEL_LENGTH` is 3 instead of 63, so one input label is too long.
- Every template kind meets every name of one and two labels. So the
  wildcard at the start, end and middle of a label is tested against labels
  that do and do not have the literal parts at those places.
- The passing run's names use `.` only. The other separators are the subject
  of `hc_label_separator`.

For `ServerNameExtension`:
- Names of 1, 2 and 3 UTF-8 bytes per code unit, and lists of 0, 1 and 2
  names, reach each branch of the client constructor. Parse inputs put the
  extension length one below, at and above its right value, and the list
  length at and one above, so every length test meets a stream that passes
  and one that fails it by one.

For `CalendarBuilder`:
- `IntBits = 4` makes `nextStamp` overflow after six field writes, and
  `MaxCalls = 4` reaches that with two `setDate` calls and a `setWeekDate`.
- Values 0 and 1 tell apart which write won. Week parameters 2 and 8 are a
  valid and an invalid one.

For `PdCompile`:
- Eight nodes are enough for every shape the hook treats differently: a
  call met twice (over a loop and a second edge), a TOC user that is not a
  call, a call reached after the constant base node exists, an unreachable
  call, a Mach node needing no TOC. Each rule class, leaf and dynamic,
  appears on both calls.

For `LoaderConstraints`:
- Three loaders are the fewest for a conflict that only a chain of links
  shows: L1–L3 and then L2–L3 with L1 and L2 disagreeing on T. Two names
  let a signature's first constraint be added before the second fails.
  Every class can be loaded before, between or after the checks. A method
  inherited through a subclass in the caller's own loader separates the
  resolved class from the holder.

For `ClassInit`:
- Two threads are enough for every wait: one initializes while the other
  waits, fails or deadlocks. A subclass (B) makes `InitSuper` recurse; the
  cycle A↔C is the smallest deadlock; A needing its subclass B reaches the
  recursive request through the superclass step. A throwing C makes the
  error state sticky across threads.

- `MhSites` has one site per path, with pairs that share an intrinsic key:
  invokeBasic over String (java.lang.invoke) and over Object (an
  application class), and linkToStatic over String and over Object (the
  MemberName kept). It also has invokeExact from an application class, and
  an ordinary method of that name. Two Java threads can race to create one
  intrinsic or to publish one site. A third, compiler thread can read a
  site before or after it is published. That covers both hazards; a third
  Java thread would only repeat the race of the first two.

### Fairness

Resolution is a bounded computation of one thread, and the model stops in no
state: `ConsumeCallInfo` always returns to idle. So deadlock checking stays on.

`LoaderDependencies` assumes weak fairness for each thread. A runnable thread
is eventually scheduled. The only lock is held for one step, so no thread waits
on another. When every thread has returned, `Terminated` stutters; deadlock
checking stays on.

`ClassInit` (in `vm_support`) assumes weak fairness for each thread: the OS
scheduler eventually runs a runnable thread, and `notify_all` wakes every
waiter. A waiting thread's step is enabled only once the class leaves
`being_initialized`. Weak fairness of the compile steps holds because the
compiler thread runs the hook to completion. `EveryAccessCompletes` needs no
more than this. Deadlock checking is off because circular initializers
really deadlock in the JVM; `EveryAccessCompletes` is stated for acyclic
dependencies only.

`MethodHandleLinkage` (stage `"mh"` of `security_utilities`) checks safety
only, so its threads need no fairness. `MHDone` stutters once every thread
has finished, so deadlock checking stays on.

The loader-constraint and invokedynamic stages of `vm_support` check safety
only. Their threads get no fairness, and `EndLoaders` is weakly fair so
that the later stages are reached.

## Not modelled, and why

- **Loader constraints, in part:** the resolver models (`LinkResolver`,
  `FieldResolver`) have one defining loader, so the check always passes
  there. `LoaderConstraints` abstracts member lookup: the holder is given.
  Array element types, primitive types, the boot loader and the purging of
  constraints on class unloading are not modelled.
- **Class resolution of the constant pool:** `resolve_klass` is assumed to succeed; the class named by a reference is any class of the hierarchy.
- **Method handles, in part:** `MethodHandleLinkage` models the linkage in
  `linkResolver.cpp`, but not the adapters `MethodHandles` generates or the
  method types. A method is a record of what the properties tell apart:
  kind, intrinsic, basic signature, and the thread that made it.
  invokedynamic's route through `resolve_method_statically` is left out,
  because `IndyCallSite` covers that site. linkToVirtual, linkToSpecial and
  linkToInterface take linkToStatic's path (`is_signature_polymorphic_static`
  only decides `keep_last_arg`), so linkToStatic stands for them.
- **Array classes:** the `clone` access special case, and lookups on array
  classes, are not modelled.
- **Class initialization, in part:** the resolver models (`LinkResolver`,
  `FieldResolver`) are one thread. The threads of `ClassInit` do static
  accesses only, not resolution. Verification, linking and the
  `ExceptionInInitializerError` wrapping are left out; `linked` is the
  start state of every class.
- **`PdCompile::pd_post_matching_hook` on PPC:** `fix_jvms` in
  `compile_ppc.cpp` is never called, so it is not modelled. The matcher is
  not modelled: the graphs are its possible outputs.
- **DisabledAlgorithmConstraints, in part:** the Calendar classes that
  `CalendarBuilder.build` creates (a Calendar is the record of what build
  gives it), the calendar validation of denyAfter dates (dates are integers), the
  `AlgorithmDecomposer` decomposition of signature names (names are atomic),
  and `checkProperty`.
- **HostnameChecker, in part:** nameprep and Punycode (IDN.toASCII on
  non-ASCII labels; an `Assert` marks where the model would need them), the
  Kerberos principal match, and `getSubjectX500Name`. The common name is given
  as an input, and certificate parsing is not modelled.
- **Other sources:** the other Java security utilities, the keychain native code,
  locale data, build files and tests are listed in PROJECT.json with the reason.

## Plan (most important first)

1. **`IndyCallSite`:** done.
2. **`LoaderDependencies`:** done, including weakly ordered reads in the
   unlocked walk. A stale read only sends the thread to `locked_add`
   earlier, and the locked re-walk finds the entry there.
3. **`ClassInit`:** done, with `PdCompile`, in `vm_support`. Next: class
   initialization triggered by resolution from several threads.
4. **Resolution coverage:** field resolution, loader constraints and the
   linkage of signature-polymorphic methods (`MethodHandleLinkage`) are done.
5. **Pure algorithms:** `DisabledAlgorithmConstraints` (with
   `CalendarBuilder`), `IPAddressUtil`, `HostnameChecker` and
   `ServerNameExtension` are done. Other findings, each shown by the model but
   kept as hazards rather than runs, are listed in PROJECT.json:
   - a duplicate dependency node (classLoaderDependencies.cpp:108);
   - a second bootstrap invocation (linkResolver.cpp:1264);
   - signed and non-ASCII IP literals (IPAddressUtil.java:60 and :175);
   - `keySize <= Integer.MAX_VALUE` disabling nothing (part_005:786).

   `setWeekDate` after `setInstant` dropping the instant (part_005:1200) is
   the run `cb_instant_and_fields`.
