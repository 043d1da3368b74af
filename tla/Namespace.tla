------------------------------ MODULE Namespace ------------------------------
(***************************************************************************)
(* What the FUSE operations on paths promise together: a tree of names on  *)
(* which every request acts at one moment between its call and its reply,  *)
(* on the name it was given and on no other, and where an error tells the  *)
(* truth about the tree at that moment.  "outside" says that the limits of *)
(* the promise have been left; from then on nothing is said.               *)
(***************************************************************************)
EXTENDS Sequences, Functions, SequencesExt

CONSTANTS Threads, Requests

VARIABLES
  tree,    \* the kind of every path there is, without the root
  asked,   \* per thread: its request, <<>> when it has none
  answer,  \* per thread: "none" until the request has acted
  outside

vars == <<tree, asked, answer, outside>>

Exists(p)   == p \in DOMAIN tree
IsA(p, k)   == Exists(p) /\ tree[p] = k
IsDir(p)    == p = <<>> \/ IsA(p, "dir")
HasChild(p) == \E q \in DOMAIN tree : q # p /\ IsPrefix(p, q)

Ask(t) ==
  /\ asked[t] = <<>>
  /\ \E r \in Requests : asked' = [asked EXCEPT ![t] = r]
  /\ UNCHANGED <<tree, answer, outside>>

Act(t, a) == asked[t] # <<>> /\ answer[t] = "none" /\ answer' = [answer EXCEPT ![t] = a]

\* create, mkdir
Make(t, p, k) ==
  /\ IsDir(Front(p)) /\ ~Exists(p)
  /\ tree' = [q \in DOMAIN tree \cup {p} |-> IF q = p THEN k ELSE tree[q]]

\* unlink, rmdir
Unname(t, p, k) ==
  /\ IsA(p, k) /\ ~HasChild(p)
  /\ tree' = Restrict(tree, DOMAIN tree \ {p})

Succeed(t) ==
  /\ Act(t, "ok")
  /\ \E r \in {asked[t]} :
       CASE r.op = "create" -> Make(t, r.path, "file")
         [] r.op = "mkdir"  -> Make(t, r.path, "dir")
         [] r.op = "unlink" -> Unname(t, r.path, "file")
         [] r.op = "rmdir"  -> Unname(t, r.path, "dir")
         [] r.op = "open"   -> IsA(r.path, "file") /\ UNCHANGED tree
         [] r.op = "readdir" -> IsA(r.path, "dir") /\ UNCHANGED tree
         [] r.op = "getattr" -> Exists(r.path) /\ UNCHANGED tree
  /\ UNCHANGED <<asked, outside>>

Refuse(t) ==
  /\ \E r \in {asked[t]} :
       \/ Act(t, "ENOENT") /\ IF r.op \in {"create", "mkdir"} THEN ~IsDir(Front(r.path))
                              ELSE ~Exists(r.path)
       \/ Act(t, "EEXIST") /\ r.op \in {"create", "mkdir"} /\ Exists(r.path)
       \/ Act(t, "EISDIR") /\ r.op \in {"unlink", "open"} /\ IsA(r.path, "dir")
       \/ Act(t, "ENOTDIR") /\ r.op \in {"rmdir", "readdir"} /\ IsA(r.path, "file")
       \/ Act(t, "ENOTEMPTY") /\ r.op = "rmdir" /\ HasChild(r.path)
       \/ Act(t, "EIO") \/ Act(t, "ENOSPC")
  /\ UNCHANGED <<tree, asked, outside>>

Reply(t) ==
  /\ answer[t] # "none"
  /\ asked' = [asked EXCEPT ![t] = <<>>] /\ answer' = [answer EXCEPT ![t] = "none"]
  /\ UNCHANGED <<tree, outside>>

Init ==
  /\ asked = [t \in Threads |-> <<>>] /\ answer = [t \in Threads |-> "none"]
  /\ ~outside

Next ==
  \/ \E t \in Threads : Ask(t) \/ Succeed(t) \/ Refuse(t) \/ Reply(t)
  \/ outside'

Spec == Init /\ [][Next]_vars
=============================================================================
