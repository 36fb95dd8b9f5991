---------------------------- MODULE MCSelection ----------------------------
(***************************************************************************)
(* Instances of Selection for TLC: names that encoding could confuse, a    *)
(* name with a space at its end, an internal one, one that must be         *)
(* refused, and one that reads like the directory of the full mode.        *)
(***************************************************************************)
EXTENDS Selection

App     == <<"app">>
Percent == <<"%", "2", "8">>
Paren   == <<"(">>
Full    == <<"full">>
Dotted  == <<"a", ".">>

MCNames == {App, Percent, Paren, Full, <<"admin">>, <<"app", " ">>}
MCLists == {<<App, <<" ", "app">>>>, <<Paren, Percent, <<"full", " ">>>>,
            <<<<>>, App>>, <<<<"admin">>>>}
MCCatalogs == {<<App, <<"admin">>, Paren, Percent, Full, <<"local">>>>,
               <<<<"admin">>, <<"config">>, App>>, <<App, Dotted>>}
MCStamps == {"2026-09-13T03:00:00"}

\* Replica sets with prefixes that do not lie in one another's directories.
MCS3Prefixes == {<<"b">>, <<"b", "/">>, <<>>}
=============================================================================
