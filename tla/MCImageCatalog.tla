---------------------------- MODULE MCImageCatalog ----------------------------
(* Small instances of ImageCatalog. *)
EXTENDS ImageCatalog

\* Characters from 11 on are letters.  The first key is a prefix of the second,
\* which is the first with a catalog behind it.
MCTwoImages == {<<11>>, <<11, 1>>}

\* 1 and 12: one number is the other's first digit.
MCFewCatalogs == {<<1>>, <<1, 2>>}

MCBoth == {"data", "index"}

WithoutAnswer == <<data, index>>
===============================================================================
