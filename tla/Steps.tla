------------------------------- MODULE Steps -------------------------------
(***************************************************************************)
(* The steps SDL_image's loaders and writers are made of, as far as they   *)
(* decide what is read, what is owned, what is reported and which way a    *)
(* function goes.  A function is a set of labelled blocks: a function from *)
(* labels to sequences of steps.  Pixels, sizes and the bytes themselves   *)
(* are not in them; a comparison of such data is a step that may go either *)
(* way.  Module Loading says what each step does.                          *)
(***************************************************************************)
EXTENDS Naturals, Sequences, TLC

LOCAL Step(do, what, into, to) ==
  [do |-> do, what |-> what, into |-> into, to |-> to]

(* The source, or the destination *)

\* Read all of some bytes, or go to l when the source ends before.
Read(l) == Step("read", "", "", {l})

\* Read some bytes and do not look at how many there were.
Take == Step("take", "", "", {})

\* Look for the end of the source, and go to l when it has come.
Poll(l) == Step("poll", "", "", {l})

\* The source is in memory, and more of it is needed than there was.
Lack == Take

\* The same of a destination, which takes all of some bytes, or is full before:
\* a write whose result is looked at, and one whose result is not.
Write(l) == Read(l)
Put == Take

\* Go to a given position; go forward from the one reached; go back to where
\* the loader started.
Seek == Step("seek", "", "", {})
Skip == Step("skip", "", "", {})
Rewind == Step("rewind", "", "", {})

(* Decisions *)

\* A condition the data has to meet, or else to l; conditions that follow each
\* other and lead to the same place are one.  Ask is for those of which SDL
\* says itself that they are not met.
Check(l) == Step("check", "", "", {l})
Ask(l) == Step("ask", "", "", {l})

\* A choice the data makes.
Either(ls) == Step("either", "", "", ls)

\* A choice that is made once by the data, or by the code, and the way taken
\* because of it.
Decide(trait) == Step("decide", trait, "", {})
Set(trait) == Step("set", trait, "", {})
Clear(trait) == Step("clear", trait, "", {})
Unless(trait, l) == Step("unless", trait, "", {l})

(* What is owned *)

\* p = malloc(), and to l when it is refused.  Make is for the functions of SDL
\* that say themselves why they refuse.
Own(p, l) == Step("own", p, "", {l})
Make(p, l) == Step("make", p, "", {l})

\* p = malloc(), used without looking at it.
Trust(p) == Step("trust", p, "", {})

\* q = realloc(p), and to l when it is refused, with p as it was; p = realloc(p),
\* and to l when it is refused and p has become NULL; the same, used without
\* looking at it.
Grow(p, l) == Step("grow", p, "", {l})
Resize(p, l) == Step("resize", p, "", {l})
Stretch(p) == Step("stretch", p, "", {})

\* What p points to is read or written.
Use(p) == Step("use", p, "", {})

\* q = p, p = NULL; p becomes a part of q; p = NULL.
Move(p, q) == Step("move", p, q, {})
Give(p, q) == Step("give", p, q, {})
Forget(p) == Step("forget", p, "", {})

\* free(p); the same, and p is NULL or out of scope from then on.
Free(p) == Step("free", p, "", {})
Drop(p) == Step("drop", p, "", {})

\* To l when p is NULL.  Expect is for the conditions that make a loader fail.
IfNull(p, l) == Step("ifnull", p, "", {l})
Expect(p, l) == Step("expect", p, "", {l})

(* Control *)

\* IMG_SetError
Say == Step("say", "", "", {})

\* The loader of format f begins.
As(f) == Step("as", f, "", {})

Goto(l) == Step("goto", "", "", {l})

\* Call f, and go to l when it fails; call f whatever it returns.
Call(f, l) == Step("call", f, "", {l})
Try(f) == Step("call", f, "", {})

\* Return success, and return failure.
Return == Step("return", "", "", {})
Fail == Step("fail", "", "", {})

\* Blocks every function has: an error is set and failure returned, failure is
\* returned, success is returned.
Exits == "err" :> <<Say, Fail>> @@ "null" :> <<Fail>> @@ "ok" :> <<Return>>

\* Mutation: the source is put back only when it is of the format.
DetectorStays(f) ==
  ("is" \o f) :> <<Read("not " \o f), Check("not " \o f), Rewind, Return>>
  @@ ("not " \o f) :> <<Fail>>

\* The IMG_is functions: they read, look, and put the source back, whatever they
\* have found.
Detector(f) ==
  ("is" \o f) :> <<Read("not " \o f), Check("not " \o f), Rewind, Return>>
  @@ ("not " \o f) :> <<Rewind, Fail>>
=============================================================================
