------------------------------- MODULE Loader -------------------------------
(***************************************************************************)
(* require, require-clear!, require-path! and load.  The cache maps the    *)
(* name of a module, exactly as it was passed to require, to #f while its  *)
(* file is being loaded and to #t afterwards; a module without an entry is *)
(* searched along the template list and loaded in a nested activation of   *)
(* the interpreter, which an error leaves one catch clause at a time.  The *)
(* code of a module is arbitrary: whatever is loaded innermost may require,*)
(* clear, load, call pcall, raise or come to its end; so may the after     *)
(* thunks that run while an error is on its way out.                       *)
(***************************************************************************)
EXTENDS Naturals, Sequences, FiniteSets

CONSTANTS
  Names,      \* the module names the program passes to require
  DirOf,      \* the name with every '.' turned into a directory separator
  Templates,  \* the templates a list may hold
  Sep,        \* the character ';'
  Default,    \* the default template list, as a string
  Given,      \* the template lists the program sets, as strings
  Files,      \* <<template, directory name>>: the files that can be read
  MaxLevels,  \* bound: nested activations
  None

ASSUME LoaderAssumption ==
  /\ Default \in Seq(Templates \union {Sep})
  /\ Given \subseteq Seq(Templates \union {Sep})
  /\ Sep \notin Templates /\ None \notin Names
  /\ DOMAIN DirOf = Names /\ \A f \in Files : f[1] \in Templates
  /\ MaxLevels \in Nat

VARIABLES
  cache,    \* the table under "@require.loaded"
  path,     \* the list under "@require.path"
  levels,   \* the nested activations, innermost last
  error,    \* the error on its way out, or None
  given,    \* history: the list as it was given
  cleared,  \* history: the modules cleared while they were being loaded
  done      \* history: the modules loaded to the end since they were cleared

loaderVars == <<cache, path, levels, error, given, cleared, done>>

Load(n) == [kind |-> "load", name |-> n]
PcallLevel == [kind |-> "pcall", name |-> None]
File == [kind |-> "file", name |-> None]
After(e) == [kind |-> "after", name |-> None, error |-> e]

Inner == levels[Len(levels)]
Outside == SubSeq(levels, 1, Len(levels) - 1)
Loading == {levels[i].name : i \in {j \in DOMAIN levels : levels[j].kind = "load"}}

FirstOf(S) == CHOOSE i \in S : \A j \in S : i <= j

-----------------------------------------------------------------------------
(* require_make_path: only the first ";;" is replaced.                     *)
MarksOf(s) == {i \in 1 .. Len(s) - 1 : s[i] = Sep /\ s[i + 1] = Sep}

RequireMakePath(s) ==
  IF MarksOf(s) = {} THEN s
  ELSE LET mark == FirstOf(MarksOf(s))
           before == SubSeq(s, 1, mark - 1)
           suffix == SubSeq(s, mark + 2, Len(s))
       IN (IF before = <<>> THEN <<>> ELSE Append(before, Sep))
            \o Default
            \o (IF suffix = <<>> THEN <<>> ELSE <<Sep>> \o suffix)

(* require_searchpath: the places of the templates under which a readable  *)
(* file is found; the first of them is the one that is loaded.             *)
Places(n) == {i \in DOMAIN path : <<path[i], DirOf[n]>> \in Files}

-----------------------------------------------------------------------------
Running == error = None
MayNest == Len(levels) < MaxLevels

RaiseError(why, n) == error' = [why |-> why, name |-> n]

(* require answers from the cache.                                         *)
RequireLoaded(n) ==
  /\ Running /\ cache[n] = "loaded"
  /\ UNCHANGED loaderVars

RequireCyclic(n) ==
  /\ Running /\ cache[n] = "loading"
  /\ RaiseError("cyclic", n)
  /\ UNCHANGED <<cache, path, levels, given, cleared, done>>

RequireNotFound(n) ==
  /\ Running /\ cache[n] = "absent" /\ Places(n) = {}
  /\ RaiseError("not found", n)
  /\ UNCHANGED <<cache, path, levels, given, cleared, done>>

RequireBegin(n) ==
  /\ Running /\ MayNest /\ cache[n] = "absent" /\ Places(n) # {}
  /\ cache' = [cache EXCEPT ![n] = "loading"]
  /\ levels' = Append(levels, Load(n))
  /\ UNCHANGED <<path, error, given, cleared, done>>

(* loadfile has read the last form of the file.                            *)
RequireEnd ==
  /\ Running /\ levels # <<>> /\ Inner.kind = "load"
  /\ cache' = [cache EXCEPT ![Inner.name] = "loaded"]
  /\ levels' = Outside
  /\ done' = done \union {Inner.name}
  /\ UNCHANGED <<path, error, given, cleared>>

(* Mutant: failures stay in the cache.                                     *)
RequireFailsCached ==
  /\ ~Running /\ levels # <<>> /\ Inner.kind = "load"
  /\ levels' = Outside
  /\ UNCHANGED <<cache, path, error, given, cleared, done>>

(* The catch clause of require: the entry goes, the error goes on.         *)
RequireFails ==
  /\ ~Running /\ levels # <<>> /\ Inner.kind = "load"
  /\ cache' = [cache EXCEPT ![Inner.name] = "absent"]
  /\ levels' = Outside
  /\ UNCHANGED <<path, error, given, cleared, done>>

RequireClear(n) ==
  /\ Running
  /\ cache' = [cache EXCEPT ![n] = "absent"]
  /\ cleared' = IF n \in Loading THEN cleared \union {n} ELSE cleared
  /\ done' = done \ {n}
  /\ UNCHANGED <<path, levels, error, given>>

RequirePathSet(s) ==
  /\ Running
  /\ path' = RequireMakePath(s) /\ given' = s
  /\ UNCHANGED <<cache, levels, error, cleared, done>>

-----------------------------------------------------------------------------
(* load reads a file without looking at the cache.                         *)
LoadFile ==
  /\ Running /\ MayNest
  /\ levels' = Append(levels, File)
  /\ UNCHANGED <<cache, path, error, given, cleared, done>>

FileEnds ==
  /\ levels # <<>> /\ Inner.kind = "file"
  /\ levels' = Outside
  /\ UNCHANGED <<cache, path, error, given, cleared, done>>

PcallBegin ==
  /\ Running /\ MayNest
  /\ levels' = Append(levels, PcallLevel)
  /\ UNCHANGED <<cache, path, error, given, cleared, done>>

(* pcall returns a value, or the error as one.                             *)
PcallEnds ==
  /\ levels # <<>> /\ Inner.kind = "pcall"
  /\ levels' = Outside /\ error' = None
  /\ UNCHANGED <<cache, path, given, cleared, done>>

(* teardownstack: the after thunks of the activation run before the catch  *)
(* clauses outside of it; what they raise is printed and forgotten.        *)
AfterBegin ==
  /\ ~Running /\ MayNest
  /\ levels' = Append(levels, After(error)) /\ error' = None
  /\ UNCHANGED <<cache, path, given, cleared, done>>

AfterEnds ==
  /\ levels # <<>> /\ Inner.kind = "after"
  /\ levels' = Outside /\ error' = Inner.error
  /\ UNCHANGED <<cache, path, given, cleared, done>>

ScriptRaises ==
  /\ Running
  /\ RaiseError("script", None)
  /\ UNCHANGED <<cache, path, levels, given, cleared, done>>

(* The host prints the error and evaluates the next form.                  *)
HostCatches ==
  /\ ~Running /\ levels = <<>>
  /\ error' = None
  /\ UNCHANGED <<cache, path, levels, given, cleared, done>>

LoaderInit ==
  /\ cache = [n \in Names |-> "absent"]
  /\ given \in Given /\ path = RequireMakePath(given)
  /\ levels = <<>> /\ error = None
  /\ cleared = {} /\ done = {}

LoaderNext ==
  \/ \E n \in Names : \/ RequireLoaded(n) \/ RequireCyclic(n)
                      \/ RequireNotFound(n) \/ RequireBegin(n)
                      \/ RequireClear(n)
  \/ RequireEnd \/ RequireFails
  \/ \E s \in Given : RequirePathSet(s)
  \/ LoadFile \/ FileEnds \/ PcallBegin \/ PcallEnds
  \/ AfterBegin \/ AfterEnds \/ ScriptRaises \/ HostCatches

LoaderSpec == LoaderInit /\ [][LoaderNext]_loaderVars

-----------------------------------------------------------------------------
Errors == [why : {"cyclic", "not found", "script"}, name : Names \union {None}]
Level == [kind : {"load"}, name : Names] \union {PcallLevel, File}
           \union {After(e) : e \in Errors}

(* The variables hold values of their types.                               *)
LoaderTypeOK ==
  /\ cache \in [Names -> {"absent", "loading", "loaded"}]
  /\ path \in Seq(Templates \union {Sep})
  /\ levels \in Seq(Level)
  /\ error \in Errors \union {None}
  /\ given \in Given
  /\ cleared \subseteq Names /\ done \subseteq Names

(* Whatever is required, raised and caught, the cache says what happened:  *)
(* the modules marked #f are those whose loading is under way, and those   *)
(* marked #t are those that were loaded to the end and not cleared since.  *)
(* A module that clears itself while it is loaded is left out: its second  *)
(* load and the end or failure of the first overwrite each other's entry.  *)
CacheTellsTruth ==
  \A n \in Names \ cleared :
    /\ cache[n] = "loading" <=> n \in Loading
    /\ cache[n] = "loaded" <=> n \in done

(* Even then an entry #f stands for a load under way, so that the error    *)
(* "cyclic dependency" is only raised for a cycle.                         *)
LoadingIsUnderWay == \A n \in Names : cache[n] = "loading" => n \in Loading

(* A module is loaded inside of its own loading only after it has been     *)
(* cleared there: mutual requires end in an error, not in a full C stack.  *)
NotInsideItself ==
  \A i, j \in DOMAIN levels :
    (/\ levels[i].kind = "load" /\ levels[j].kind = "load"
     /\ levels[i].name = levels[j].name /\ levels[i].name \notin cleared) => i = j

(* The templates a list given to require-path! stands for.                 *)
Meant(s) ==
  {s[i] : i \in DOMAIN s} \union
  (IF MarksOf(s) # {} THEN {Default[i] : i \in DOMAIN Default} ELSE {})

(* A module that is reported as not found is in none of the templates of   *)
(* the list nor, for a list with ";;", of the default templates.           *)
NothingOverlooked ==
  \A n \in Names : Places(n) = {} =>
    \A t \in Meant(given) : <<t, DirOf[n]>> \notin Files

(* require runs a module at most once and knows whether it did, on every   *)
(* way out of a load, and finds every module there is (require).           *)
RequireIsRight ==
  CacheTellsTruth /\ LoadingIsUnderWay /\ NotInsideItself /\ NothingOverlooked
=============================================================================
