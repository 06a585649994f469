------------------------------- MODULE Startup -------------------------------
(***************************************************************************)
(* The start and the end of the library (gekkota.c), and the modules the   *)
(* platform loads for its features (gekkota_platform.c, gekkota_module_    *)
(* unix.c): which are there may change between one start and the next.     *)
(*                                                                         *)
(* The tables of the two platforms have one entry, an optional one; what   *)
(* the loader does with more, its own comments say.                        *)
(***************************************************************************)
EXTENDS Naturals, Sequences, FiniteSets

CONSTANTS
    Names,      \* names of modules
    Tables,     \* sequences of loadings: [feature, isOptional, name]
    MaxStarts   \* bound: times the library is started

ASSUME TableAssumption ==
    /\ MaxStarts \in Nat
    /\ \A t \in Tables :
         /\ t \in Seq({t[i] : i \in DOMAIN t})
         /\ \A i \in DOMAIN t : t[i].name \in Names /\ t[i].isOptional \in BOOLEAN

VARIABLES
    isInitialized,
    loadings,      \* the table of the platform
    handle,        \* the field module of each loading: is it not NULL
    loadingCount,  \* platform.loadingCount is not 0
    bound,         \* loadings whose function pointers were found
    open,          \* of the system: how often each module is open
    starts,        \* _gekkota_initialize succeeded so often
    closed         \* history: a module was closed that was not open

startVars == <<isInitialized, loadings, handle, loadingCount, bound, open, starts, closed>>

StartTypeOK ==
    /\ isInitialized \in BOOLEAN /\ loadingCount \in BOOLEAN /\ closed \in BOOLEAN
    /\ loadings \in Tables
    /\ handle \in [DOMAIN loadings -> BOOLEAN]
    /\ bound \subseteq DOMAIN loadings
    /\ open \in [Names -> Nat] /\ starts \in 0..MaxStarts

StartInit ==
    /\ isInitialized = FALSE
    /\ loadings \in Tables
    /\ handle = [i \in DOMAIN loadings |-> FALSE]
    /\ loadingCount = FALSE /\ bound = {}
    /\ open = [n \in Names |-> 0]
    /\ starts = 0 /\ closed = FALSE

-----------------------------------------------------------------------------
(* The loader.                                                             *)

\* The platform while its table is gone through.
Loader == [handle |-> handle, bound |-> bound, open |-> open, closed |-> closed, ok |-> TRUE]

\* gekkota_module_unload: NULL is refused.
Unload(s, i) ==
    IF ~s.handle[i] THEN s
    ELSE IF s.open[loadings[i].name] = 0 THEN [s EXCEPT !.closed = TRUE]
    ELSE [s EXCEPT !.open[loadings[i].name] = @ - 1]

\* The first k loadings that are in a set are unloaded, and forgotten or not.
UnloadAll(s, k, in, forget) ==
    LET un[j \in 0..k] ==
          IF j = 0 THEN s
          ELSE IF j \notin in THEN un[j - 1]
          ELSE LET u == Unload(un[j - 1], j) IN IF forget THEN [u EXCEPT !.handle[j] = FALSE] ELSE u
    IN  un[k]

SameFeature(i) == {j \in DOMAIN loadings : loadings[j].feature = loadings[i].feature}

\* Mutant: the modules of a feature that is given up stay open.
OptionalFailsOpen(s, i) ==
    [s EXCEPT !.handle = [j \in DOMAIN s.handle |-> s.handle[j] /\ j \notin SameFeature(i)]]

\* A module is missing that is not needed: those loaded for its feature go.
OptionalFails(s, i) ==
    UnloadAll([s EXCEPT !.handle[i] = FALSE], i - 1, SameFeature(i), TRUE)

\* A module is missing that is needed: all go, and the table keeps their handles.
MandatoryFails(s, i) ==
    [UnloadAll([s EXCEPT !.handle[i] = FALSE], i - 1, DOMAIN loadings, FALSE) EXCEPT !.ok = FALSE]

\* gekkota_module_load.
Loaded(s, i) == [s EXCEPT !.handle[i] = TRUE, !.open[loadings[i].name] = @ + 1]

\* The initializer of a loading looks for functions that a module of whole has.
Bound(s, i, whole) ==
    [s EXCEPT !.bound = IF loadings[i].name \in whole THEN @ \cup {i} ELSE @ \ {i}]

\* Loading i of _gekkota_platform_load_modules, when the system has the modules of
\* there.  (What the initializer of a loading answers is not looked at.)
Load(s, i, there, whole) ==
    IF loadings[i].name \in there THEN Bound(Loaded(s, i), i, whole)
    ELSE IF loadings[i].isOptional THEN OptionalFails(s, i) ELSE MandatoryFails(s, i)

LoadModules(there, whole) ==
    LET load[i \in 0..Len(loadings)] ==
          IF i = 0 THEN Loader
          ELSE IF ~load[i - 1].ok THEN load[i - 1] ELSE Load(load[i - 1], i, there, whole)
    IN  load[Len(loadings)]

TableIs(s) == handle' = s.handle /\ bound' = s.bound /\ open' = s.open /\ closed' = s.closed

-----------------------------------------------------------------------------
(* The library.                                                            *)

\* gekkota_initialize: the sockets first, then the modules of the platform.  What
\* was done is not undone when the rest fails.
Initialize ==
    /\ ~isInitialized /\ starts < MaxStarts
    /\ starts' = starts + 1
    /\ \E there, whole \in SUBSET Names :
         LET s == LoadModules(there, whole)
         IN  /\ TableIs(s)
             /\ isInitialized' = s.ok
             /\ loadingCount' = (loadingCount \/ s.ok)
    /\ UNCHANGED loadings

\* gekkota_initialize, on a platform that is not known, or too old.
RefusePlatform ==
    /\ ~isInitialized /\ starts < MaxStarts
    /\ starts' = starts + 1
    /\ UNCHANGED <<isInitialized, loadings, handle, loadingCount, bound, open, closed>>

\* gekkota_uninitialize: every module that was loaded is unloaded, and the table
\* keeps the handles.
Uninitialize ==
    /\ isInitialized
    /\ isInitialized' = FALSE
    /\ TableIs(IF loadingCount THEN UnloadAll(Loader, Len(loadings), DOMAIN loadings, FALSE) ELSE Loader)
    /\ UNCHANGED <<loadings, loadingCount, starts>>

StartNext == Initialize \/ RefusePlatform \/ Uninitialize

StartSpec == StartInit /\ [][StartNext]_startVars

-----------------------------------------------------------------------------
(* Properties.                                                             *)

\* However a start failed half-way, and whatever stale handles the table kept of
\* it: a module is open as often as loadings of a started library hold it, none is
\* open when there is no library, and none is closed twice.
ModulesAreHeld ==
    /\ ~closed
    /\ \A n \in Names :
         open[n] = IF isInitialized
                   THEN Cardinality({i \in DOMAIN loadings : handle[i] /\ loadings[i].name = n})
                   ELSE 0
=============================================================================
