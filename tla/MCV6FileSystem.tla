---------------------------- MODULE MCV6FileSystem ----------------------------
EXTENDS V6FileSystem

\* Two names that are the same where they are cut, and one that fits.
MCNames == {<<"a">>, <<"a", "b", "c">>, <<"a", "b", "d">>}
===============================================================================
