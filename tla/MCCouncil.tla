----------------------------- MODULE MCCouncil -----------------------------
EXTENDS Council

CONSTANTS f1, f2, f3

\* f1 and f3 resemble each other through f2 only.
Chain == {{f1, f2}, {f2, f3}}

\* Reviews that agree, differ in wording, or have nothing in common.
SmallReviews == {<<>>, <<f1>>, <<f2>>, <<f1, f3>>, <<f3, f2>>}

By(f, sources) == [about |-> f, sources |-> sources]

\* Syntheses that leave everything out, merge, or credit one reviewer only.
SmallSyntheses ==
  {<<>>, <<By(f2, {"codex"})>>, <<By(f1, Providers)>>,
   <<By(f3, {"claude"}), By(f1, {"codex"})>>}
=============================================================================
