----------------------------- MODULE ListWindow -----------------------------
(***************************************************************************)
(* The scrolling that showFileList() and showWiFiList() share: a selection *)
(* that stops at both ends of the list, and a window of Rows rows that     *)
(* follows it by one row at a time.  Entries are counted from 0.           *)
(***************************************************************************)
EXTENDS Integers

Rows == 3  \* both loops draw for (int i = 0; i < 3; i++)

\* Mutant of SelUp: the first entry is not guarded.
SelUpUnguarded(sel) == sel - 1

\* Key A.
SelUp(sel) == IF sel > 0 THEN sel - 1 ELSE sel
TopUp(sel, top) == IF SelUp(sel) < top THEN top - 1 ELSE top

\* Mutant of TopDown: the window follows one row too late.
TopDownLate(sel, top, n) == IF sel + 1 < n /\ sel >= top + Rows THEN top + 1 ELSE top

\* Key C, in a list of n entries.
SelDown(sel, n) == IF sel < n - 1 THEN sel + 1 ELSE sel
TopDown(sel, top, n) == IF SelDown(sel, n) >= top + Rows THEN top + 1 ELSE top

\* The entries that a list of n entries shows from top on.
Shown(top, n) == {i \in top..top + Rows - 1 : i < n}
=============================================================================
