--------------------------- MODULE ComponentLoader --------------------------
(***************************************************************************)
(* The loading of one .vue file by http-vue-loader: one request for the    *)
(* file, its sections normalized side by side (each may need a request of  *)
(* its own), then compiled in one go, and a promise that is settled with   *)
(* the component or with the first failure, which stops nothing that is    *)
(* under way.                                                              *)
(*                                                                         *)
(* What the file holds is chosen when its answer comes.  Names, URLs and   *)
(* the text of the sections are left out, as is the <base> element, which  *)
(* comes and goes within one step.                                         *)
(***************************************************************************)
EXTENDS Naturals

CONSTANTS Styles     \* how many styles a file may have

\* A section is its place in the array of all of them.
Template == 1
Script == 2
Style == 3 .. Styles + 2
Section == 1 .. Styles + 2

LoaderAssumption == Styles \in Nat

VARIABLES
  stage,            \* "none", "requested", "normalizing", "compiled", "fulfilled"
                    \* or "rejected"
  section,          \* section[s]: "absent", "requested", "fetched", "done", "failed"
  alien,            \* the sections in a language that has no processor
  scoped,           \* the styles with the attribute scoped
  rootless,         \* whether the template has no root element
  scriptEnds,       \* how the script ends: "well", with "null" (or undefined) for its
                    \* exports, or in an exception "with" a line number or "without"
  head,             \* head[s]: whether style s is in the document: "out",
                    \* "plain", "scoped", or "disabled" until it can be scoped
  ran               \* history: how often the script was run

fileVars == <<alien, scoped, rootless, scriptEnds>>
vars == <<stage, section, fileVars, head, ran>>

Present == {s \in Section : section[s] # "absent"}
HasTemplate == Template \in Present

TypeOK ==
  /\ stage \in {"none", "requested", "normalizing", "compiled", "fulfilled", "rejected"}
  /\ section \in [Section -> {"absent", "requested", "fetched", "done", "failed"}]
  /\ alien \subseteq Section /\ scoped \subseteq Style
  /\ rootless \in BOOLEAN /\ scriptEnds \in {"well", "null", "with", "without"}
  /\ head \in [Style -> {"out", "plain", "scoped", "disabled"}]
  /\ ran \in 0 .. 1

Init ==
  /\ stage = "none"
  /\ section = [s \in Section |-> "absent"]
  /\ alien = {} /\ scoped = {} /\ rootless = FALSE /\ scriptEnds = "well"
  /\ head = [s \in Style |-> "out"]
  /\ ran = 0

-----------------------------------------------------------------------------
\* The factory is called.
load ==
  /\ stage = "none"
  /\ stage' = "requested"
  /\ UNCHANGED <<section, fileVars, head, ran>>

\* The answer is an error, or there is none.
FileFails ==
  /\ stage = "requested"
  /\ stage' = "rejected"
  /\ UNCHANGED <<section, fileVars, head, ran>>

\* The file is there: its sections that have a src are requested.
FileArrives ==
  /\ stage = "requested"
  /\ stage' = "normalizing"
  /\ \E there \in SUBSET Section : \E src \in SUBSET there :
       /\ section' = [s \in Section |-> IF s \in src THEN "requested"
                                        ELSE IF s \in there THEN "fetched" ELSE "absent"]
       /\ alien' \in SUBSET there
       /\ scoped' \in SUBSET (there \cap Style)
       /\ rootless' \in (IF Template \in there THEN BOOLEAN ELSE {FALSE})
       /\ scriptEnds' \in (IF Script \in there THEN {"well", "null", "with", "without"}
                                            ELSE {"well"})
  /\ UNCHANGED <<head, ran>>

\* Faulty variant: the failure is not passed on.
FailSectionAlone(s) ==
  /\ section' = [section EXCEPT ![s] = "failed"]
  /\ UNCHANGED <<stage, fileVars, head, ran>>

\* Promise.all is rejected with the first section that fails.
FailSection(s) ==
  /\ section' = [section EXCEPT ![s] = "failed"]
  /\ stage' = "rejected"
  /\ UNCHANGED <<fileVars, head, ran>>

SectionArrives(s) ==
  /\ section[s] = "requested"
  /\ \/ /\ section' = [section EXCEPT ![s] = "fetched"]
        /\ UNCHANGED <<stage, fileVars, head, ran>>
     \/ FailSection(s)

\* Its language is processed, and its content set.  An unknown language is a
\* TypeError.
_normalizeSection(s) ==
  /\ section[s] = "fetched"
  /\ \/ /\ s \notin alien
        /\ section' = [section EXCEPT ![s] = "done"]
        /\ UNCHANGED <<stage, fileVars, head, ran>>
     \/ s \in alien /\ FailSection(s)

AllNormalized == \A s \in Present : section[s] = "done"

\* Scoping needs an element to put the scope's name on.  The code means to skip the
\* scoped styles of a file without template, but looks for the template in the style
\* and not in the component.
Unscopable == ~HasTemplate \/ rootless

\* What the document may hold of a style that was compiled.  A scoped one enters it
\* first, and is left there as it is, with an exception, if there is nothing to scope
\* it to, or because a rule cannot be rewritten.
CompiledStyle(s) ==
  CASE s \in scoped /\ Unscopable -> {"plain"}
    [] s \in scoped /\ ~Unscopable -> {"scoped", "disabled", "plain"}
    [] OTHER -> {"plain"}

Broken(s, h) == s \in scoped /\ h[s] = "plain"

\* Styles are compiled one by one up to the first exception.
CompileStyles(h) ==
  /\ h \in [Style -> {"out", "plain", "scoped", "disabled"}]
  /\ \A s \in Style :
       IF s \in Present /\ \A t \in Style : t < s => ~Broken(t, h)
         THEN h[s] \in CompiledStyle(s)
         ELSE h[s] = "out"

\* Faulty variant: a failed section is taken for an empty one.
CompilePartly ==
  /\ stage \in {"normalizing", "rejected"}
  /\ \A s \in Present : section[s] \in {"done", "failed"}
  /\ ran' = ran + 1
  /\ CompileStyles(head')
  /\ stage' = "compiled"
  /\ UNCHANGED <<section, fileVars>>

\* Faulty variant: the styles are compiled after an exception with a line, and the
\* promise is fulfilled.
CompileIgnoresThrow ==
  /\ stage = "normalizing" /\ AllNormalized
  /\ ran' = IF scriptEnds = "with" THEN 0 ELSE ran + 1
  /\ CompileStyles(head')
  /\ stage' = "compiled"
  /\ UNCHANGED <<section, fileVars>>

\* The script is run, then the styles are compiled.  A script whose exception has a
\* line number makes compile throw before the styles; with another one they are
\* compiled, and the promise is rejected.
compile ==
  /\ stage = "normalizing"
  /\ AllNormalized
  /\ ran' = IF Script \in Present THEN ran + 1 ELSE ran
  /\ IF scriptEnds = "with"
       THEN UNCHANGED head
       ELSE CompileStyles(head')
  /\ stage' = IF scriptEnds \in {"with", "without"} \/ \E s \in Style : Broken(s, head')
                THEN "rejected" ELSE "compiled"
  /\ UNCHANGED <<section, fileVars>>

\* Faulty variant: exports that are null are handed over as they are.
FinishAnyway ==
  /\ stage = "compiled"
  /\ stage' = "fulfilled"
  /\ UNCHANGED <<section, fileVars, head, ran>>

\* The exports get the template and a name, and are handed over; null takes neither.
Finish ==
  /\ stage = "compiled"
  /\ stage' = IF scriptEnds = "null" THEN "rejected" ELSE "fulfilled"
  /\ UNCHANGED <<section, fileVars, head, ran>>

\* A disabled style was loaded: it is scoped and enabled, or stays as it is if one
\* of its rules cannot be rewritten.
onStyleLoaded(s) ==
  /\ head[s] = "disabled"
  /\ head' = [head EXCEPT ![s] = "scoped"]
  /\ UNCHANGED <<stage, section, fileVars, ran>>

Next ==
  \/ load
  \/ FileFails
  \/ FileArrives
  \/ \E s \in Section : SectionArrives(s) \/ _normalizeSection(s)
  \/ compile
  \/ Finish
  \/ \E s \in Style : onStyleLoaded(s)

\* The browser ends every request, with status 0 at worst, and runs what is queued.
Fairness ==
  /\ WF_vars(FileFails \/ FileArrives)
  /\ \A s \in Section : WF_vars(SectionArrives(s) \/ _normalizeSection(s))
  /\ WF_vars(compile)
  /\ WF_vars(Finish)

Spec == Init /\ [][Next]_vars /\ Fairness

-----------------------------------------------------------------------------
\* Property (safety).  The script is not run, and no style enters the document,
\* before each section of the file has its final content, in whatever order the
\* answers came.
CompiledIsNormalized ==
  (ran > 0 \/ \E s \in Style : head[s] # "out") => AllNormalized

\* Property (action).  After the first failure, the sections that are still under
\* way change nothing outside: the script is not run, and no style enters.
RejectedIsFinal ==
  [][stage = "rejected" =>
       /\ stage' = "rejected" /\ ran' = ran
       /\ \A s \in Style : head[s] = "out" => head'[s] = "out"]_vars

\* Property (safety).  A scoped style is never in effect for the whole document,
\* not even in the browser that can rewrite its rules only later, unless its
\* component could not be loaded.
ScopedStaysScoped ==
  \A s \in scoped : head[s] = "plain" => stage = "rejected"

\* Property (safety).  A component that was loaded is whole: its script was run
\* once and left exports, and every style of the file is in the document.
FulfilledIsWhole ==
  stage \in {"compiled", "fulfilled"} =>
    /\ Script \in Present => ran = 1
    /\ stage = "fulfilled" => scriptEnds = "well"
    /\ \A s \in Present \cap Style : head[s] # "out"

\* Claim of compile ("no template, no scopable style needed"), refuted: a scoped style of
\* a file without template is kept out of the document.
NoTemplateNoScoping ==
  ~HasTemplate => \A s \in scoped : head[s] = "out"

\* Property (liveness).  The promise is settled, whatever the file holds and
\* whichever requests fail.
LoadEnds == stage = "requested" ~> stage \in {"fulfilled", "rejected"}
=============================================================================
