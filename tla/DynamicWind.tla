----------------------------- MODULE DynamicWind -----------------------------
(***************************************************************************)
(* dynamic-wind, continuations and errors.  dynamic-wind makes a wind      *)
(* object, links it to vm->dywind and calls its three thunks one after the *)
(* other, each in a frame that points to the wind; the return of such a    *)
(* frame looks at the state of the wind to know which thunk comes next     *)
(* (dywindadvance).  The state belongs to the wind, which continuations    *)
(* share, not to the frames, which they copy.                              *)
(*                                                                         *)
(* A pcall runs its thunk on fresh frames and a fresh wind chain           *)
(* (ReserveStack): a level.  The thunks that a jump or an error runs       *)
(* (runthunk) are taken to return or fail, and not to jump.                *)
(***************************************************************************)
EXTENDS Integers, Sequences

CONSTANTS
  MaxWinds,   \* bound: winds a behaviour makes
  MaxFrames,  \* bound: frames of a level
  MaxLevels,  \* bound: nested levels
  Uses        \* what the Scheme program does: see Features

(* Capture a continuation in a before or after thunk; jump back into such  *)
(* a thunk after it has returned; jump from such a thunk into the extent   *)
(* of its own dynamic-wind; call pcall; jump to a continuation that was    *)
(* captured in another level.                                              *)
Features == {"thunk capture", "thunk reentry", "thunk jumps in", "pcall", "level jump"}

ASSUME ConstantsAssumption ==
  /\ MaxWinds \in Nat /\ MaxFrames \in Nat \ {0} /\ MaxLevels \in Nat \ {0}
  /\ Uses \subseteq Features

(* Winds are numbered as they are made; 0 is NULL.                         *)
Winds == 1 .. MaxWinds
NoWind == 0

VARIABLES
  parent,  \* the wind that was current when this one was made
  stage,   \* DynamicWindObj::state: which thunk is next or running
  level,   \* the levels, the running one last: frames and vm->dywind, and
           \* a name to know the level by
  saved,   \* the one continuation the program keeps
  owed,    \* before thunks that have run to their end less after thunks begun
  fault    \* has dywindadvance raised its internal error?

vars == <<parent, stage, level, saved, owed, fault>>

Front(s) == SubSeq(s, 1, Len(s) - 1)
Top(s) == s[Len(s)]

Frame(w, part) == [wind |-> w, part |-> part]
Code == Frame(NoWind, "code")

BaseLevel == [frames |-> <<>>, dywind |-> NoWind, name |-> 0]

frames == Top(level).frames
dywind == Top(level).dywind

(* The running level goes on with these frames and this wind.              *)
GoOn(fs, w) == level' = Append(Front(level), [Top(level) EXCEPT !.frames = fs, !.dywind = w])

(* A wind and the winds around it (indywindchain).                         *)
Chain(w) ==
  LET up[x \in 0 .. MaxWinds] == IF x = NoWind THEN {} ELSE {x} \union up[parent[x]]
  IN  up[w]

(* The innermost of a chain of winds.                                      *)
Innermost(ws) == IF ws = {} THEN NoWind ELSE CHOOSE w \in ws : \A x \in ws : x <= w

Owe(more, less) ==
  owed' = [w \in Winds |-> (owed[w] + IF w \in more THEN 1 ELSE 0) - IF w \in less THEN 1 ELSE 0]

-----------------------------------------------------------------------------
(* An error: teardownstack drops the frames of the level and runs the      *)
(* after thunks of the bodies that were left; the pcall returns, or the    *)
(* top level goes on with its next form.                                   *)
Raise(w) ==
  /\ Owe({}, {x \in Chain(w) : stage[x] = "body"})
  /\ level' = IF Len(level) > 1 THEN Front(level)
              ELSE <<BaseLevel>>

Running == frames # <<>>

Form ==
  /\ ~Running
  /\ GoOn(<<Code>>, dywind)
  /\ UNCHANGED <<parent, stage, saved, owed, fault>>

Call ==
  /\ Running /\ Len(frames) < MaxFrames
  /\ GoOn(Append(frames, Code), dywind)
  /\ UNCHANGED <<parent, stage, saved, owed, fault>>

PCall ==
  /\ Running /\ "pcall" \in Uses /\ Len(level) < MaxLevels
  /\ \E n \in 1 .. MaxLevels :
       /\ \A l \in 1 .. Len(level) : level[l].name # n
       /\ saved # <<>> => saved[1].home # n
       /\ level' = Append(level, [BaseLevel EXCEPT !.frames = <<Code>>, !.name = n])
  /\ UNCHANGED <<parent, stage, saved, owed, fault>>

Fail ==
  /\ Running
  /\ Raise(dywind)
  /\ UNCHANGED <<parent, stage, saved, fault>>

(* Mutant: vm->dywind is set before the parent is read from it.            *)
WindOfItself(w) ==
  /\ Running /\ Len(frames) < MaxFrames
  /\ stage[w] = "unused" /\ \A x \in 1 .. w - 1 : stage[x] # "unused"
  /\ parent' = [parent EXCEPT ![w] = w]
  /\ stage' = [stage EXCEPT ![w] = "before"]
  /\ GoOn(Append(frames, Frame(w, "before")), w)
  /\ UNCHANGED <<saved, owed, fault>>

(* calldynamicwind: the before thunk is called first.                      *)
Wind(w) ==
  /\ Running /\ Len(frames) < MaxFrames
  /\ stage[w] = "unused" /\ \A x \in 1 .. w - 1 : stage[x] # "unused"
  /\ parent' = [parent EXCEPT ![w] = dywind]
  /\ stage' = [stage EXCEPT ![w] = "before"]
  /\ GoOn(Append(frames, Frame(w, "before")), w)
  /\ UNCHANGED <<saved, owed, fault>>

(* callrtnfrm for a frame that is no thunk of a wind.                      *)
Return ==
  /\ Running /\ Top(frames).wind = NoWind
  /\ IF Len(frames) = 1 /\ Len(level) > 1
     THEN level' = Front(level)
     ELSE GoOn(Front(frames), dywind)
  /\ UNCHANGED <<parent, stage, saved, owed, fault>>

(* callrtnfrm and dywindadvance for a thunk of w.                          *)
Advance ==
  /\ Running /\ Top(frames).wind # NoWind
  /\ LET w == Top(frames).wind
     IN  \/ /\ stage[w] = "before"
            /\ stage' = [stage EXCEPT ![w] = "body"]
            /\ Owe({w}, {})
            /\ GoOn(Append(Front(frames), Frame(w, "body")), dywind)
            /\ UNCHANGED fault
         \/ /\ stage[w] = "body"
            /\ stage' = [stage EXCEPT ![w] = "after"]
            /\ Owe({}, {w})
            /\ GoOn(Append(Front(frames), Frame(w, "after")), dywind)
            /\ UNCHANGED fault
         \/ /\ stage[w] = "after"
            /\ stage' = [stage EXCEPT ![w] = "done"]
            /\ GoOn(Front(frames), parent[w])
            /\ UNCHANGED <<owed, fault>>
         \/ /\ stage[w] = "done"
            /\ Raise(dywind)
            /\ fault' = TRUE
            /\ UNCHANGED stage
  /\ UNCHANGED <<parent, saved>>

-----------------------------------------------------------------------------
(* Continuations.                                                          *)

IsThunk(f) == f.part \in {"before", "after"}

(* Mutant: vm->dywind is not kept.                                         *)
CallCCOutside ==
  /\ Running
  /\ "thunk capture" \notin Uses => \A i \in 1 .. Len(frames) : ~IsThunk(frames[i])
  /\ saved' = <<[frames |-> frames, dywind |-> NoWind, home |-> Top(level).name,
                 dystage |-> IF dywind = NoWind THEN "none" ELSE stage[dywind]]>>
  /\ UNCHANGED <<parent, stage, level, owed, fault>>

(* checkcallcc: the frames, vm->dywind and its state are kept.             *)
CallCC ==
  /\ Running
  /\ "thunk capture" \notin Uses => \A i \in 1 .. Len(frames) : ~IsThunk(frames[i])
  /\ saved' = <<[frames |-> frames, dywind |-> dywind, home |-> Top(level).name,
                 dystage |-> IF dywind = NoWind THEN "none" ELSE stage[dywind]]>>
  /\ UNCHANGED <<parent, stage, level, owed, fault>>

(* Is the frame f, the i-th of its level, among the frames fs?             *)
Runs(fs, i, f) == i <= Len(fs) /\ fs[i] = f

(* The check of callproc: a jump into a thunk needs the wind of the thunk  *)
(* in the chain.                                                           *)
Illegal(k) == k.dystage \in {"before", "after"} /\ k.dywind \notin Chain(dywind)

(* Does a jump go back into a thunk that has returned?                     *)
ReentersThunk(k) ==
  \E i \in 1 .. Len(k.frames) : IsThunk(k.frames[i]) /\ ~Runs(frames, i, k.frames[i])

(* Does a jump leave a thunk for another part of its dynamic-wind?         *)
LeavesThunkInside(k) ==
  \E i \in 1 .. Len(frames) :
    /\ IsThunk(frames[i]) /\ frames[i].wind \in Chain(k.dywind)
    /\ ~Runs(k.frames, i, frames[i])

(* Jumps the program makes only if it uses the feature.                    *)
MayJump(k) ==
  /\ "thunk reentry" \notin Uses /\ ReentersThunk(k) => Illegal(k)
  /\ "thunk jumps in" \notin Uses => ~LeavesThunkInside(k)
  /\ "level jump" \notin Uses => k.home = Top(level).name

(* Mutant: the after thunk runs whatever the state of the wind.            *)
LeftAnyhow(common) == Chain(dywind) \ Chain(common)

(* unwinddywindchain: the after thunks run of the bodies that a jump       *)
(* leaves, up to the wind that the target has in common.                   *)
Left(common) == {w \in Chain(dywind) \ Chain(common) : stage[w] = "body"}

(* Mutant: the state of a wind that is entered again is left as it is.     *)
EnteredAsLeft(ws) == stage

(* enterdywindchain: after its before thunk a wind is in its body.         *)
Entered(ws) == [w \in Winds |-> IF w \in ws THEN "body" ELSE stage[w]]

(* unwinddywindchain stops at the first wind that the target is in too;    *)
(* enterdywindchain runs the before thunks from there to the target.       *)
Throw ==
  /\ Running /\ saved # <<>>
  /\ LET k == saved[1]
         common == Innermost(Chain(dywind) \intersect Chain(k.dywind))
         left == Left(common)
         entered == Chain(k.dywind) \ Chain(common)
     IN  /\ MayJump(k)
         /\ IF Illegal(k)
            THEN (* illegal to re-enter a completed before/after thunk *)
                 /\ Owe({}, left \union {x \in Chain(common) : stage[x] = "body"})
                 /\ level' = IF Len(level) > 1 THEN Front(level)
                             ELSE <<BaseLevel>>
                 /\ UNCHANGED stage
            ELSE /\ Owe(entered, left)
                 /\ stage' = Entered(entered)
                 /\ GoOn(k.frames, k.dywind)
  /\ UNCHANGED <<parent, saved, fault>>

Init ==
  /\ parent = [w \in Winds |-> NoWind]
  /\ stage = [w \in Winds |-> "unused"]
  /\ level = <<BaseLevel>>
  /\ saved = <<>>
  /\ owed = [w \in Winds |-> 0]
  /\ fault = FALSE

Next ==
  \/ Form \/ Call \/ Return \/ Advance \/ PCall \/ Fail
  \/ \E w \in Winds : Wind(w)
  \/ CallCC \/ Throw

Spec == Init /\ [][Next]_vars

-----------------------------------------------------------------------------
(* Properties.                                                             *)

Frames == [wind : 0 .. MaxWinds, part : {"code", "before", "body", "after"}]
Stages == {"unused", "before", "body", "after", "done"}

TypeOK ==
  /\ parent \in [Winds -> 0 .. MaxWinds] /\ \A w \in Winds : parent[w] < w
  /\ stage \in [Winds -> Stages]
  /\ level \in Seq([frames : Seq(Frames), dywind : 0 .. MaxWinds, name : Nat])
  /\ saved \in Seq([frames : Seq(Frames), dywind : 0 .. MaxWinds, home : Nat,
                    dystage : Stages \union {"none"}])
  /\ owed \in [Winds -> Int]
  /\ fault \in BOOLEAN

InBody(w) ==
  \E l \in 1 .. Len(level) : \E i \in 1 .. Len(level[l].frames) :
    level[l].frames[i] = Frame(w, "body")

(* "re-entry repeats before/after each time" (aftertest.scm): however the  *)
(* body of a dynamic-wind is entered and left, its before thunk has run    *)
(* once more than its after thunk while control is in the body, and as     *)
(* often at all other times.                                               *)
OwedInBody == \A w \in Winds : owed[w] = IF InBody(w) THEN 1 ELSE 0

(* vm->dywind and its parents are the winds whose thunks are on the stack, *)
(* so that an escape or an error finds every after thunk it has to run.    *)
ChainIsStack ==
  \A l \in 1 .. Len(level) :
    Chain(level[l].dywind) =
      {level[l].frames[i].wind : i \in 1 .. Len(level[l].frames)} \ {NoWind}

(* "internal error, dynamic-wind state": the state of a wind is one of the *)
(* three whenever one of its thunks returns.                               *)
NoFault == ~fault
=============================================================================
