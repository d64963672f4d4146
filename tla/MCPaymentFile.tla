--------------------------- MODULE MCPaymentFile ---------------------------
(* PaymentFile with legal templates, and a price that is not in whole francs. *)
EXTENDS PaymentFile, TLC

\* Of 6.60 francs, 35 % and 70 % round down to 2 and up to 5 francs; the last
\* tier leaves the 60 hundredths that its rounded share, 7 francs, would not.
ThreeTiers == << [code |-> "reservation", cap |-> 3500], [code |-> "dalle", cap |-> 7000],
                 [code |-> "livraison", cap |-> 10000] >>
\* A template activated on the way: 33.33 % is 2 francs again, but 98.50 % rounds
\* up to 7 francs, above the price.
OtherTiers == << [code |-> "reservation", cap |-> 3333], [code |-> "toiture", cap |-> 9850],
                 [code |-> "livraison", cap |-> 10000] >>
\* One tier: the first instalment is the rounded price.
OneTier == << [code |-> "vente", cap |-> 10000] >>
LegalTemplates == {ThreeTiers, OtherTiers, OneTier}

Symmetry == Permutations(References) \cup Permutations(Notices)
=============================================================================
