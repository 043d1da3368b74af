----------------------------- MODULE FileSystem -----------------------------
(***************************************************************************)
(* The FUSE operations on paths (fuse_ops.c, path.c): requests of several  *)
(* threads walk the tree, look names up, make and remove inodes, under the *)
(* locks of the inodes.  A directory is a set of entries here; inode_alloc *)
(* and inode_free are steps.  "." and ".." are left out.                   *)
(***************************************************************************)
EXTENDS Integers, FiniteSets, Sequences, Functions, TLC

LOCAL INSTANCE SequencesExt

CONSTANTS
  Threads,
  Names,
  Paths,      \* the paths that requests name
  Inums, Root,
  Images,     \* the trees to begin with: the kinds and the entries of inodes
  MaxOps,     \* bound: requests in a behaviour
  MaxFaults   \* bound: failing device calls

NONE == 0

\* bound: a path has one name or two
TreePaths == {<<n>> : n \in Names} \cup Names \X Names

\* Every inode in use but the root has one name, in the root or in a directory
\* there; what has no name is free and empty.
SoundImage(kinds, names) ==
  /\ kinds \in [Inums -> {"free", "file", "dir"}] /\ kinds[Root] = "dir"
  /\ names \in [Inums -> SUBSET (Names \X Inums)]
  /\ \A d \in Inums :
       /\ IsFiniteSet(names[d])
       /\ names[d] # {} => kinds[d] = "dir" /\ (d = Root \/ \E e \in names[Root] : e[2] = d)
       /\ \A e \in names[d] :
            /\ e[2] # Root /\ kinds[e[2]] # "free"
            /\ \A c \in Inums : \A g \in names[c] : (c = d /\ e[1] = g[1]) \/ e[2] = g[2] => c = d /\ e = g
  /\ \A i \in Inums \ {Root} : kinds[i] # "free" => \E d \in Inums : \E e \in names[d] : e[2] = i

ASSUME FileSystemAssumption ==
  /\ Inums \subseteq Nat \ {NONE} /\ Root \in Inums /\ IsFiniteSet(Inums)
  /\ Paths \subseteq TreePaths
  /\ \A image \in Images : SoundImage(image.kind, image.entries)
  /\ MaxOps \in Nat /\ MaxFaults \in Nat

VARIABLES
  kind, nlink, entries,  \* of the inodes
  buf,      \* the static buffer of path_basename
  handles,  \* the open files: the path and fi->fh
  pc, req, ans,
  nm, dir, tgt,  \* per thread: filename, parent_inode, target or new inode
  crossed,  \* ghost: limits left behind
  used      \* what the bounds count

inodeVars == <<kind, nlink, entries>>
callVars  == <<nm, dir, tgt>>
vars == <<inodeVars, buf, handles, pc, req, ans, callVars, crossed, used>>

Mutators == {"create", "mkdir", "unlink", "rmdir"}
Readers  == {"open", "readdir", "getattr"}
Requests == [op : Mutators \cup Readers, path : Paths]

Goto(t, p)    == pc' = [pc EXCEPT ![t] = p]
Use(b, limit) == used[b] < limit /\ used' = [used EXCEPT ![b] = @ + 1]
Cross(limits) == crossed' = crossed \cup limits
Answer(t, a)  == ans' = [ans EXCEPT ![t] = a] /\ Goto(t, "reply")
Op(t)         == req[t].op
Makes(t)      == Op(t) \in {"create", "mkdir"}
Lowest(S)     == CHOOSE n \in S : \A m \in S : n <= m

\* dir_lookup; NONE is ENOENT
Lookup(d, n) == IF \E e \in entries[d] : e[1] = n
                THEN (CHOOSE e \in entries[d] : e[1] = n)[2] ELSE NONE

\* the lock of an inode, which the requests that change a directory keep
Held(i) == \E u \in Threads : dir[u] = i /\ pc[u] \in {"add", "remove", "free"}

----------------------------------------------------------------------------
(* The kernel and libfuse: requests on the same path, and requests on what *)
(* lies beneath a path that is being removed, are kept apart.              *)

Removes(r) == r.op \in {"unlink", "rmdir"}

Apart(r, s) ==
  /\ r.path = s.path => r.op \in Readers /\ s.op \in Readers
  /\ Removes(r) => ~IsPrefix(r.path, s.path)
  /\ Removes(s) => ~IsPrefix(s.path, r.path)

IsOpen(p) == \E h \in handles : h.path = p

\* a file that is open is not unlinked, unless mounted with hard_remove
Ask(t) ==
  /\ pc[t] = "idle" /\ Use("ops", MaxOps)
  /\ \E r \in Requests :
       /\ \A u \in Threads : pc[u] # "idle" => Apart(r, req[u])
       /\ req' = [req EXCEPT ![t] = r]
       /\ Goto(t, IF r.op \in Mutators THEN "basename" ELSE "walk")
       /\ Cross(IF r.op = "unlink" /\ IsOpen(r.path) THEN {"hardRemove"} ELSE {})
  /\ UNCHANGED <<inodeVars, buf, handles, ans, callVars>>

Release ==
  /\ \E h \in handles : handles' = handles \ {h}
  /\ UNCHANGED <<inodeVars, buf, pc, req, ans, callVars, crossed, used>>

----------------------------------------------------------------------------
(* path.c                                                                  *)

\* path_basename: into the one buffer of all threads
Basename(t) ==
  /\ pc[t] = "basename"
  /\ buf' = Last(req[t].path)
  /\ Goto(t, "copy")
  /\ UNCHANGED <<inodeVars, handles, req, ans, callVars, crossed, used>>

\* strcpy out of it, as any mixture of two names when another one wrote it
CopyName(t) ==
  /\ pc[t] = "copy"
  /\ \E n \in Names :
       /\ buf = Last(req[t].path) => n = buf
       /\ nm' = [nm EXCEPT ![t] = n]
       /\ Cross(IF n # Last(req[t].path) THEN {"nameRace"} ELSE {})
  /\ Goto(t, "walk")
  /\ UNCHANGED <<inodeVars, buf, handles, req, ans, dir, tgt, used>>

\* path_dirname
Dirname(p) == Front(p)

\* A walk takes no lock: between the two writes of a dir_add that splits an
\* entry it reads what the gap holds, an old entry or the end of the block.
Found(t, d, n, i) ==
  /\ i # Lookup(d, n) => \E u \in Threads \ {t} : pc[u] = "add" /\ dir[u] = d
  /\ Cross(IF i # Lookup(d, n) THEN {"walk"} ELSE {})

\* path_resolve_parent, and path_resolve up to the last name
Walk(t) ==
  /\ pc[t] = "walk"
  /\ \E i \in Inums \cup {NONE} :
       /\ IF Dirname(req[t].path) = <<>> THEN i = Root /\ UNCHANGED crossed
          ELSE Found(t, Root, Head(Dirname(req[t].path)), i)
       /\ dir' = [dir EXCEPT ![t] = i]
       /\ IF i = NONE \/ kind[i] # "dir" THEN Answer(t, "ENOENT")
          ELSE Goto(t, IF Op(t) \in Mutators THEN "lock" ELSE "find") /\ UNCHANGED ans
  /\ UNCHANGED <<inodeVars, buf, handles, req, nm, tgt, used>>

\* the last name of path_resolve
Find(t) ==
  /\ pc[t] = "find"
  /\ \E i \in Inums \cup {NONE} :
       /\ Found(t, dir[t], Last(req[t].path), i)
       /\ tgt' = [tgt EXCEPT ![t] = i]
       /\ IF i = NONE THEN Answer(t, "ENOENT") ELSE Goto(t, "look") /\ UNCHANGED ans
  /\ UNCHANGED <<inodeVars, buf, handles, req, nm, dir, used>>

\* an inode or a directory cannot be read: ENOENT as well
WalkFails(t) ==
  /\ pc[t] \in {"walk", "find"} \/ (pc[t] = "lock" /\ ~Makes(t) /\ ~Held(dir[t]))
  /\ Use("faults", MaxFaults)
  /\ Cross({"unread"})
  /\ Answer(t, "ENOENT")
  /\ UNCHANGED <<inodeVars, buf, handles, req, callVars>>

----------------------------------------------------------------------------
(* fuse_ops.c                                                              *)

Look(t, op, a) ==
  /\ pc[t] = "look" /\ Op(t) = op /\ ~Held(tgt[t])
  /\ Answer(t, a)
  /\ UNCHANGED <<inodeVars, buf, handles, req, callVars, crossed, used>>

\* and the changes of attributes
Getattr(t) == Look(t, "getattr", "ok")
Open(t)    == Look(t, "open", IF kind[tgt[t]] # "file" THEN "EISDIR" ELSE "ok")
Readdir(t) == Look(t, "readdir", IF kind[tgt[t]] # "dir" THEN "ENOTDIR" ELSE "ok")

FreeInums == {i \in Inums : kind[i] = "free"}

\* inode_alloc, and what the caller puts into the new inode
Alloc(t) ==
  /\ FreeInums # {}
  /\ \E i \in {Lowest(FreeInums)} :
       /\ tgt'     = [tgt EXCEPT ![t] = i]
       /\ kind'    = [kind EXCEPT ![i] = IF Op(t) = "mkdir" THEN "dir" ELSE "file"]
       /\ nlink'   = [nlink EXCEPT ![i] = IF Op(t) = "mkdir" THEN 2 ELSE 1]
       /\ entries' = [entries EXCEPT ![i] = {}]
  /\ Goto(t, "add")

\* create, mkdir: EEXIST, ENOSPC, or a new inode
Make(t) ==
  /\ pc[t] = "lock" /\ Makes(t) /\ ~Held(dir[t])
  /\ CASE Lookup(dir[t], nm[t]) # NONE -> Answer(t, "EEXIST") /\ UNCHANGED <<inodeVars, tgt>>
       [] Lookup(dir[t], nm[t]) = NONE /\ FreeInums = {} ->
            Answer(t, "ENOSPC") /\ UNCHANGED <<inodeVars, tgt>>
       [] OTHER -> Alloc(t) /\ UNCHANGED ans
  /\ UNCHANGED <<buf, handles, req, nm, dir, crossed, used>>

\* a directory that cannot be read counts as one that has not the name
MakeUnread(t) ==
  /\ pc[t] = "lock" /\ Makes(t) /\ ~Held(dir[t])
  /\ Use("faults", MaxFaults)
  /\ Alloc(t)
  /\ UNCHANGED <<ans, buf, handles, req, nm, dir, crossed>>

\* inode_alloc fails and leaves nothing
MakeFails(t) ==
  /\ pc[t] = "lock" /\ Makes(t) /\ ~Held(dir[t]) /\ Lookup(dir[t], nm[t]) = NONE
  /\ Use("faults", MaxFaults)
  /\ Answer(t, "ENOSPC")
  /\ UNCHANGED <<inodeVars, buf, handles, req, callVars, crossed>>

\* dir_add, which looks for the name again
Add(t) ==
  /\ pc[t] = "add" /\ Lookup(dir[t], nm[t]) = NONE
  /\ entries' = [entries EXCEPT ![dir[t]] = @ \cup {<<nm[t], tgt[t]>>}]
  /\ nlink' = [nlink EXCEPT ![dir[t]] = IF Op(t) = "mkdir" THEN @ + 1 ELSE @]
  /\ Answer(t, "ok")
  /\ UNCHANGED <<kind, buf, handles, req, callVars, crossed, used>>

\* dir_add fails: the name is there after all, or a device call failed
AddRefused(t) ==
  /\ pc[t] = "add"
  /\ IF Lookup(dir[t], nm[t]) # NONE THEN UNCHANGED used ELSE Use("faults", MaxFaults)

\* slip: the new inode is kept
AddFailsKeeps(t) ==
  /\ AddRefused(t)
  /\ Answer(t, "EIO")
  /\ UNCHANGED <<inodeVars, buf, handles, req, callVars, crossed>>

\* the new inode is given back
AddFails(t) ==
  /\ AddRefused(t)
  /\ kind' = [kind EXCEPT ![tgt[t]] = "free"]
  /\ Answer(t, "EIO")
  /\ UNCHANGED <<nlink, entries, buf, handles, req, callVars, crossed>>

\* slip: rmdir does not look at nlink
CheckKind(t) ==
  /\ pc[t] = "lock" /\ ~Makes(t) /\ ~Held(dir[t])
  /\ \E i \in {Lookup(dir[t], nm[t])} :
       /\ i # NONE => ~Held(i)
       /\ tgt' = [tgt EXCEPT ![t] = i]
       /\ IF i = NONE THEN Answer(t, "ENOENT")
          ELSE IF (Op(t) = "unlink") = (kind[i] = "dir")
               THEN Answer(t, IF kind[i] = "dir" THEN "EISDIR" ELSE "ENOTDIR")
               ELSE Goto(t, "remove") /\ UNCHANGED ans
  /\ UNCHANGED <<inodeVars, buf, handles, req, nm, dir, crossed, used>>

\* unlink, rmdir: the checks, under the locks of both inodes; a directory is
\* empty when it has no directories
Check(t) ==
  /\ pc[t] = "lock" /\ ~Makes(t) /\ ~Held(dir[t])
  /\ \E i \in {Lookup(dir[t], nm[t])} :
       /\ i # NONE => ~Held(i)
       /\ tgt' = [tgt EXCEPT ![t] = i]
       /\ CASE i = NONE -> Answer(t, "ENOENT") /\ UNCHANGED crossed
            [] i # NONE /\ Op(t) = "unlink" /\ kind[i] = "dir" -> Answer(t, "EISDIR") /\ UNCHANGED crossed
            [] i # NONE /\ Op(t) = "rmdir" /\ kind[i] # "dir" -> Answer(t, "ENOTDIR") /\ UNCHANGED crossed
            [] i # NONE /\ Op(t) = "rmdir" /\ kind[i] = "dir" /\ nlink[i] > 2 ->
                 Answer(t, "ENOTEMPTY") /\ UNCHANGED crossed
            [] OTHER -> /\ Goto(t, "remove") /\ UNCHANGED ans
                        /\ Cross(IF Op(t) = "rmdir" /\ entries[i] # {} THEN {"files"} ELSE {})
  /\ UNCHANGED <<inodeVars, buf, handles, req, nm, dir, used>>

\* dir_remove
Unname(t) ==
  /\ pc[t] = "remove"
  /\ entries' = [entries EXCEPT ![dir[t]] = @ \ {<<nm[t], tgt[t]>>}]
  /\ nlink' = [nlink EXCEPT ![dir[t]] = IF Op(t) = "rmdir" THEN @ - 1 ELSE @]
  /\ ans' = [ans EXCEPT ![t] = "ok"]
  /\ Goto(t, "free")
  /\ UNCHANGED <<kind, buf, handles, req, callVars, crossed, used>>

UnnameFails(t) ==
  /\ pc[t] = "remove" /\ Use("faults", MaxFaults)
  /\ Answer(t, "EIO")
  /\ UNCHANGED <<inodeVars, buf, handles, req, callVars, crossed>>

\* inode_free, whatever nlink is
Free(t) ==
  /\ pc[t] = "free" /\ ~Held(tgt[t])
  /\ kind' = [kind EXCEPT ![tgt[t]] = "free"]
  /\ Goto(t, "reply")
  /\ UNCHANGED <<nlink, entries, buf, handles, req, ans, callVars, crossed, used>>

\* fi->fh of create and open
Reply(t) ==
  /\ pc[t] = "reply"
  /\ handles' = IF Op(t) \in {"create", "open"} /\ ans[t] = "ok"
                THEN handles \cup {[path |-> req[t].path, fh |-> tgt[t]]} ELSE handles
  /\ req' = [req EXCEPT ![t] = <<>>] /\ ans' = [ans EXCEPT ![t] = "none"]
  /\ Goto(t, "idle")
  /\ nm' = [nm EXCEPT ![t] = NONE] /\ dir' = [dir EXCEPT ![t] = NONE] /\ tgt' = [tgt EXCEPT ![t] = NONE]
  /\ UNCHANGED <<inodeVars, buf, crossed, used>>

----------------------------------------------------------------------------
Init ==
  /\ \E image \in Images :
       /\ kind = image.kind /\ entries = image.entries
       /\ nlink = [i \in Inums |->
            CASE kind[i] = "dir" -> 2 + Cardinality({e \in entries[i] : kind[e[2]] = "dir"})
              [] kind[i] = "file" -> 1
              [] OTHER -> 0]
  /\ buf = NONE /\ handles = {}
  /\ pc = [t \in Threads |-> "idle"]
  /\ req = [t \in Threads |-> <<>>] /\ ans = [t \in Threads |-> "none"]
  /\ nm = [t \in Threads |-> NONE] /\ dir = [t \in Threads |-> NONE] /\ tgt = [t \in Threads |-> NONE]
  /\ crossed = {} /\ used = [b \in {"ops", "faults"} |-> 0]

\* every request has ended and there will be no more
Finished ==
  /\ \A t \in Threads : pc[t] = "idle"
  /\ used["ops"] = MaxOps /\ handles = {}
  /\ UNCHANGED vars

Resolve(t) == Basename(t) \/ CopyName(t) \/ Walk(t) \/ Find(t) \/ WalkFails(t)
Read(t)    == Getattr(t) \/ Open(t) \/ Readdir(t)
Change(t) ==
  \/ Make(t) \/ MakeUnread(t) \/ MakeFails(t) \/ Add(t) \/ AddFails(t)
  \/ Check(t) \/ Unname(t) \/ UnnameFails(t) \/ Free(t)

Next ==
  \/ \E t \in Threads : Ask(t) \/ Resolve(t) \/ Read(t) \/ Change(t) \/ Reply(t)
  \/ Release \/ Finished

Spec == Init /\ [][Next]_vars

----------------------------------------------------------------------------
(* Properties.  "crossed" names what the code does not keep itself from:   *)
(*   nameRace  the name in the one buffer is another thread's              *)
(*   walk      a walk met a directory between the two writes of a dir_add  *)
(*   files     a directory with files and no directories was removed       *)
(*   hardRemove  an open file was unlinked, in a mount with hard_remove    *)
(*   unread    ENOENT because an inode could not be read                   *)

TypeOK ==
  /\ kind \in [Inums -> {"free", "file", "dir"}] /\ kind[Root] = "dir"
  /\ nlink \in [Inums -> Int]
  /\ entries \in [Inums -> SUBSET (Names \X Inums)]
  /\ buf \in Names \cup {NONE}
  /\ handles \subseteq [path : Paths, fh : Inums]
  /\ req \in [Threads -> Requests \cup {<<>>}]
  /\ nm \in [Threads -> Names \cup {NONE}]
  /\ dir \in [Threads -> Inums \cup {NONE}] /\ tgt \in [Threads -> Inums \cup {NONE}]
  /\ crossed \subseteq {"nameRace", "walk", "files", "hardRemove", "unread"}

Within(limits) == crossed \cap limits = {}

\* the names of an inode, with their directories
NamesOf(i) == {d \in {d \in Inums : kind[d] = "dir"} \X Names : <<d[2], i>> \in entries[d[1]]}

\* the inode that a request has made and not named yet, or has taken the name of
InHand(i) == \E t \in Threads : tgt[t] = i /\ (pc[t] = "free" \/ (pc[t] = "add" /\ Makes(t)))

NamesOnce == \A i \in Inums : \A e, g \in entries[i] : e[1] = g[1] => e = g

\* No inode is lost and none has two names, although requests make, name,
\* unname and free it in separate steps, of which each may fail, and other
\* threads reuse its number at once; a directory counts its directories. No
\* directory ever has a name twice.
TreeSound ==
  /\ TypeOK /\ NamesOnce
  /\ Within({"nameRace", "walk", "files"}) =>
    \A i \in Inums \ {Root} :
      /\ kind[i] # "free" => IF InHand(i) THEN NamesOf(i) = {} ELSE Cardinality(NamesOf(i)) = 1
      /\ kind[i] = "free" => NamesOf(i) = {}
      /\ kind[i] = "dir" => nlink[i] = 2 + Cardinality({e \in entries[i] : kind[e[2]] = "dir"})

\* the inode at a path
At(p) == IF Len(p) = 1 THEN Lookup(Root, p[1])
         ELSE IF Lookup(Root, p[1]) = NONE THEN NONE ELSE Lookup(Lookup(Root, p[1]), p[2])

\* The number in a file handle is, for as long as the file is open, that of
\* the file that was opened under this path.
HandlesKeepFile ==
  Within({"nameRace", "walk", "files", "hardRemove"}) =>
    \A h \in handles : At(h.path) = h.fh /\ kind[h.fh] = "file"

----------------------------------------------------------------------------
(* The requests implement a tree of names, within the limits.              *)

Tree == [p \in {p \in TreePaths : At(p) # NONE} |-> kind[At(p)]]

Abstract == INSTANCE Namespace
  WITH tree    <- Tree,
       asked   <- req,
       answer  <- ans,
       outside <- crossed # {}

\* Every request acts at one moment between call and reply, on the path it was
\* given, and answers by the tree of that moment, although it walks without
\* locks, takes its name through a buffer that all share, and changes names,
\* link counts and inodes in several steps.
ActsOnceAsNamed == Abstract!Spec
=============================================================================
