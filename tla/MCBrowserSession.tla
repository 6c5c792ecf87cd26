-------------------------- MODULE MCBrowserSession --------------------------
(***************************************************************************)
(* Small instances of BrowserSession for TLC.                              *)
(***************************************************************************)
EXTENDS BrowserSession, TLC

\* The pages of a browser are interchangeable.
Interchangeable == Permutations(Page)
=============================================================================
