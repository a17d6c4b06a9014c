-------------------------- MODULE TomasClassloader --------------------------
(***************************************************************************)
(* The agent's class loader, which looks into its own URLs before it asks  *)
(* its parent (except for the JDK's classes), while several threads load   *)
(* classes.  Reading a URL may fail at any time, and a class file may be   *)
(* refused with an Error.                                                  *)
(*                                                                         *)
(* findLoadedClass, findClass and the loadClass of ClassLoader, which asks *)
(* the parent and then the URLs again, are the JDK's and external.  Loads  *)
(* that a definition causes (of super classes) run on the same thread and  *)
(* are loads of their own here.                                            *)
(***************************************************************************)
EXTENDS Naturals

CONSTANTS
  Thread, NoThread,
  Name,             \* names of classes
  Jdk,              \* those that begin with "java." or "sun."
  Own, Parents      \* those that the URLs have, and those that the parent finds

LoaderAssumption ==
  NoThread \notin Thread /\ Name # {} /\ Jdk \cup Own \cup Parents \subseteq Name

VARIABLES
  at,               \* at[t]: "idle", "waiting" for the lock, at its "own" URLs, at
                    \* the "parent", or at the URLs "again"
  name,             \* name[t]: what t loads
  lock,             \* the thread that holds the loader's monitor
  defined,          \* the classes that the loader has defined
  answers,          \* history: which classes were returned, by name and loader
  unread,           \* history: the classes of the URLs that could not be read once
  duplicates        \* history: the classes that were defined when they were there

vars == <<at, name, lock, defined, answers, unread, duplicates>>

TypeOK ==
  /\ at \in [Thread -> {"idle", "waiting", "own", "parent", "again"}]
  /\ name \in [Thread -> Name]
  /\ lock \in Thread \cup {NoThread}
  /\ defined \subseteq Own
  /\ answers \subseteq Name \X {"own", "parent"}
  /\ unread \subseteq Own /\ duplicates \subseteq Own

Init ==
  /\ at = [t \in Thread |-> "idle"]
  /\ name \in [Thread -> {CHOOSE n \in Name : TRUE}]
  /\ lock = NoThread
  /\ defined = {} /\ answers = {} /\ unread = {} /\ duplicates = {}

Goto(t, l) == at' = [at EXCEPT ![t] = l]

-----------------------------------------------------------------------------
\* loadClass is called.
loadClass(t, n) ==
  /\ at[t] = "idle"
  /\ Goto(t, "waiting")
  /\ name' = [name EXCEPT ![t] = n]
  /\ UNCHANGED <<lock, defined, answers, unread, duplicates>>

\* The load ends, with a class or without, and leaves the monitor.
Leave(t) == Goto(t, "idle") /\ lock' = NoThread

Found(n, l) == answers' = answers \cup {<<n, l>>}

\* Faulty variant: loadClass is not synchronized.
LookupUnsynchronized(t) ==
  /\ at[t] = "waiting"
  /\ IF name[t] \in defined
       THEN Goto(t, "idle") /\ Found(name[t], "own")
       ELSE Goto(t, IF name[t] \in Jdk THEN "parent" ELSE "own") /\ UNCHANGED answers
  /\ UNCHANGED <<name, lock, defined, unread, duplicates>>

\* Faulty variant: the parent comes first for every name.
LookupParentFirst(t) ==
  /\ at[t] = "waiting" /\ lock = NoThread
  /\ IF name[t] \in defined
       THEN Goto(t, "idle") /\ Found(name[t], "own") /\ UNCHANGED lock
       ELSE Goto(t, "parent") /\ lock' = t /\ UNCHANGED answers
  /\ UNCHANGED <<name, defined, unread, duplicates>>

\* Under the monitor: a class that is loaded is returned; the JDK's are the parent's.
Lookup(t) ==
  /\ at[t] = "waiting" /\ lock = NoThread
  /\ IF name[t] \in defined
       THEN Goto(t, "idle") /\ Found(name[t], "own") /\ UNCHANGED lock
       ELSE /\ Goto(t, IF name[t] \in Jdk THEN "parent" ELSE "own")
            /\ lock' = t
            /\ UNCHANGED answers
  /\ UNCHANGED <<name, defined, unread, duplicates>>

\* findClass reads and defines the class; resolveClass may still throw an Error.
Define(t) ==
  /\ at[t] \in {"own", "again"} /\ name[t] \in Own
  /\ defined' = defined \cup {name[t]}
  /\ duplicates' = duplicates \cup ({name[t]} \cap defined)
  /\ Found(name[t], "own") \/ UNCHANGED answers
  /\ Leave(t)
  /\ UNCHANGED <<name, unread>>

\* The class file is refused with an Error, which is not caught.
Refuse(t) ==
  /\ at[t] \in {"own", "again"} /\ name[t] \in Own
  /\ Leave(t)
  /\ UNCHANGED <<name, defined, answers, unread, duplicates>>

\* Faulty variant: what could not be read is taken for defined.
MissDefines(t) ==
  /\ at[t] \in {"own", "again"}
  /\ defined' = defined \cup {name[t]}
  /\ IF at[t] = "own" THEN Goto(t, "parent") /\ UNCHANGED lock ELSE Leave(t)
  /\ UNCHANGED <<name, answers, unread, duplicates>>

\* It is not there, or cannot be read: an exception, which is dropped the first time.
Miss(t) ==
  /\ at[t] \in {"own", "again"}
  /\ unread' = unread \cup ({name[t]} \cap Own)
  /\ IF at[t] = "own"
       THEN Goto(t, "parent") /\ UNCHANGED lock
       ELSE Leave(t)
  /\ UNCHANGED <<name, defined, answers, duplicates>>

\* The parent is asked.
AskParent(t) ==
  /\ at[t] = "parent"
  /\ IF name[t] \in Parents
       THEN Found(name[t], "parent") /\ Leave(t)
       ELSE Goto(t, "again") /\ UNCHANGED <<answers, lock>>
  /\ UNCHANGED <<name, defined, unread, duplicates>>

Step(t) == Lookup(t) \/ Define(t) \/ Refuse(t) \/ Miss(t) \/ AskParent(t)

Next == \E t \in Thread : Step(t) \/ \E n \in Name : loadClass(t, n)

Spec == Init /\ [][Next]_vars

-----------------------------------------------------------------------------
\* Property (safety).  No class is defined twice, whichever threads load it at once.
DefinedOnce == duplicates = {}

\* Property (safety).  One name stands for two classes, that of the loader and that
\* of its parent, only if the URLs could not be read at some time: the failure,
\* which is dropped, is not remembered.
OneClassPerName ==
  \A n \in Name :
    <<n, "own">> \in answers /\ <<n, "parent">> \in answers => n \in unread

\* Property (safety).  A class of the JDK that the parent finds is always the
\* parent's; another one is the loader's if its URLs have it and can be read.
RightLoader ==
  \A n \in Name :
    /\ n \in Jdk \cap Parents => n \notin defined
    /\ n \in Own \ Jdk /\ <<n, "parent">> \in answers => n \in unread
=============================================================================
