---------------------------- MODULE MCFlashCache ----------------------------
(* FlashCache for TLC; the .cfg files give the constants their values.       *)
EXTENDS FlashCache, TLC

CONSTANTS a1, a2, a3

\* An app that is flashed, one with encrypted files, one that is loaded into RAM.
ThreeKinds == a1 :> "flash" @@ a2 :> "encrypted" @@ a3 :> "ram"

NoOption == [skip |-> FALSE, eraseAll |-> FALSE, confirm |-> FALSE, jtag |-> FALSE]

\* One option at a time, and skip_autoflash together with JTAG.
Options ==
    {NoOption, [NoOption EXCEPT !.skip = TRUE], [NoOption EXCEPT !.eraseAll = TRUE],
     [NoOption EXCEPT !.confirm = TRUE], [NoOption EXCEPT !.skip = TRUE, !.jtag = TRUE]}

=============================================================================
