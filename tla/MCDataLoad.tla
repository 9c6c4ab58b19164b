----------------------------- MODULE MCDataLoad -----------------------------
(* Instances of DataLoad for TLC: samples 1 and 2 of datasets 1 and 2.     *)
EXTENDS DataLoad

Aphase(name, dc) ==
    [phase |-> name, phprop |-> "pH", phDC |-> <<[DC |-> dc, DCprop |-> "Q"]>>]

Row(id, sample, dataset, T, P, w, phases) ==
    [id |-> id, sample |-> sample, expdataset |-> dataset, sT |-> T, sP |-> P,
     weight |-> w, expphases |-> phases]

e11 == Row(1, 1, 1, 25, 1, 1, <<Aphase("aqueous", "Na"), Aphase("gas", "Na")>>)
e12 == Row(2, 1, 2, 25, 1, 2, <<Aphase("aq", "Na")>>)
e21 == Row(3, 2, 1, 50, 1, 1, <<Aphase("aq_gen", "Na")>>)
e22 == Row(4, 2, 2, 50, 9, 3, <<>>)
\* A second experiment with the key of e11.
e11b == Row(5, 1, 1, 25, 9, 1, <<>>)

MCCollections ==
    (SUBSET {e11, e12, e21, e22}) \cup {{e11, e11b}, {e11, e11b, e12, e21}}

Everything ==
    [usedatasets |-> <<>>, skipdatasets |-> <<>>, usesamples |-> <<>>,
     skipsamples |-> <<>>, usepairs |-> <<>>, skippairs |-> <<>>,
     sT |-> <<>>, sP |-> <<>>, samplelist |-> <<>>, datasetlist |-> <<>>]

Pairs(datasets, samples) == [datasets |-> datasets, samples |-> samples]

ByNames ==
    {[Everything EXCEPT !.usedatasets = u, !.skipdatasets = s,
                        !.usesamples = v, !.skipsamples = t] :
        u \in {<<>>, <<0>>, <<1>>, <<2, 1>>}, s \in {<<>>, <<0>>, <<2>>},
        v \in {<<>>, <<0>>, <<1>>, <<1, 0>>}, t \in {<<>>, <<2>>}}

ByPairs ==
    {[Everything EXCEPT !.usepairs = u, !.skippairs = s] :
        u \in {<<>>, <<Pairs(<<1>>, <<1>>)>>, <<Pairs(<<2>>, <<2, 1>>)>>,
               <<Pairs(<<1>>, <<1>>), Pairs(<<2>>, <<2>>)>>,
               <<Pairs(<<1>>, <<>>)>>, <<Pairs(<<0>>, <<0>>)>>,
               <<Pairs(<<1>>, <<2, 0, 1>>)>>},
        s \in {<<>>, <<Pairs(<<1>>, <<1>>)>>,
               <<Pairs(<<1>>, <<1, 2>>), Pairs(<<2>>, <<1>>)>>,
               <<Pairs(<<2>>, <<>>), Pairs(<<1>>, <<2>>)>>,
               <<Pairs(<<1, 2>>, <<1>>)>>}}

ByNumbers ==
    {[Everything EXCEPT !.sT = t, !.sP = p, !.usedatasets = u] :
        t \in {<<>>, <<NoNumber>>, <<0>>, <<50>>, <<25, 40>>},
        p \in {<<>>, <<9>>, <<0, 5>>, <<1, 9, 20>>}, u \in {<<>>, <<1>>}}

Sample(s, d, w) == [SA |-> s, DS |-> d, WT |-> w]

Dataset(d, w) == [DS |-> d, WT |-> w]

ByLists ==
    {[Everything EXCEPT !.samplelist = s, !.datasetlist = d,
                        !.usedatasets = u, !.skippairs = p] :
        s \in {<<>>, <<Sample(1, 1, 5)>>, <<Sample(2, 2, 5), Sample(1, 1, 7)>>,
               <<Sample(1, 0, 5)>>},
        d \in {<<>>, <<Dataset(1, 5)>>, <<Dataset(2, 5), Dataset(2, 7)>>},
        u \in {<<>>, <<2>>},
        p \in {<<>>, <<Pairs(<<1>>, <<1>>)>>}}

MCSelections == ByNames \cup ByPairs \cup ByNumbers \cup ByLists

Entry(name, names) == [GemsName |-> name, syn |-> names]

PhaseEntry(name, names, dcs) == [GemsName |-> name, syn |-> names, SynDCs |-> dcs]

NoSynonyms == [SynPHs |-> <<>>, SynDCPs |-> <<>>, SynPHPs |-> <<>>]

\* Two phases with components, and a chain of names.
MCSynonyms ==
    {[NoSynonyms EXCEPT !.SynPHPs = <<Entry("pHm", <<"pH">>)>>,
                        !.SynDCPs = <<Entry("Qnt", <<"Q", "q">>)>>,
                        !.SynPHs =
          <<PhaseEntry("gas_gen", <<"gas">>, <<>>),
            PhaseEntry("aq_gen", <<"aqueous", "aq">>, <<Entry("Na+", <<"Na">>)>>)>>],
     [NoSynonyms EXCEPT !.SynPHs =
          <<PhaseEntry("aq_gen", <<"aq">>, <<>>), PhaseEntry("aq", <<"aqueous">>, <<>>)>>]}

MCGarbage == {0, 7}
=============================================================================
