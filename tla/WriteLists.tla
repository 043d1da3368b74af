----------------------------- MODULE WriteLists -----------------------------
(***************************************************************************)
(* Lists of block writes <<block, content>>, as a transaction carries them *)
(* (Transaction::writes) and as recovery replays them: in list order, so   *)
(* the last write of a block decides.                                      *)
(***************************************************************************)
EXTENDS Integers, Sequences

\* the contents f after the writes ws, in order
Overlay(f, ws) ==
  [b \in DOMAIN f |->
     LET hits == {i \in DOMAIN ws : ws[i][1] = b}
     IN  IF hits = {} THEN f[b]
         ELSE ws[CHOOSE i \in hits : \A j \in hits : j <= i][2]]

\* the blocks a list writes
Targets(ws) == {ws[i][1] : i \in DOMAIN ws}
=============================================================================
