----------------------------- MODULE Tournament -----------------------------
(***************************************************************************)
(* The selection loop of src/src/evolution/tournament.h: evaluate, rank,   *)
(* keep the survivors, breed the next generation; first a tuning phase in  *)
(* which every family keeps its own best, then a selection phase in which  *)
(* the threshold X decides. (How a generation is evaluated by threads is   *)
(* the module Evaluation.)                                                 *)
(*                                                                         *)
(* A genome is its family and the score an evaluation gives it; its        *)
(* structure (gate, volatility target) is part of its family here. What    *)
(* crossover and mutation make of a parent is a genome of the same family  *)
(* with any score: crossover is within a family only.                      *)
(***************************************************************************)
EXTENDS Integers, SequencesExt, FiniteSetsExt

CONSTANTS
    NumFamilies,        \* families 1 .. NumFamilies, in the order of their names
    Controls,           \* the control families among them
    Scores,             \* what an evaluation may give
    Threshold,          \* surviveThreshold
    Population,         \* population
    SeedsPerFamily,     \* seedsPerFamily
    Generations,        \* generations
    TuneGenerations,    \* those of the tuning phase
    TuneKeepPerFamily,  \* tuneKeepPerFamily
    EliteKeep,          \* eliteKeep
    EliteKeepPerFamily, \* eliteKeepPerFamily
    Immigrants,         \* immigrantFraction * population
    Speciate,           \* speciate
    Want                \* finalists listed

Families == 1 .. NumFamilies
Genomes == [family : Families, score : Scores]

ASSUME FamiliesAssumption == NumFamilies \in Nat \ {0} /\ Controls \subseteq Families
ASSUME ScoresAssumption == Scores \subseteq Int /\ Threshold \in Int
ASSUME SizesAssumption ==
    /\ {Population, Generations, Want} \subseteq Nat \ {0}
    /\ {SeedsPerFamily, TuneGenerations, TuneKeepPerFamily, EliteKeep,
        EliteKeepPerFamily, Immigrants} \subseteq Nat
    /\ Speciate \in BOOLEAN

VARIABLES
    population,  \* the genomes of this generation; ranked once evaluated
    survivors,   \* the survivors of this generation, in rank order
    gen,         \* the generation, from 0
    best,        \* bestByKey_: every genome evaluated so far
    champions,   \* bestByFamily_: a best genome of each family seen so far
    finalists,   \* outcome.finalists
    pc           \* "evaluate", "select", "breed", "done"

tournamentVars == <<population, survivors, gen, best, champions, finalists, pc>>

-----------------------------------------------------------------------------
Ranked(s) == \A i, j \in DOMAIN s : i < j => s[i].score >= s[j].score

\* The k-th smallest number of S.
Nth(S, k) == CHOOSE i \in S : Cardinality({j \in S : j <= i}) = k

\* The members of s at these positions, in order.
Picked(s, positions) == [k \in 1 .. Cardinality(positions) |-> s[Nth(positions, k)]]

\* How many of the family of s[i] are at or before i.
RankInFamily(s, i) == Cardinality({j \in 1 .. i : s[j].family = s[i].family})

\* The sizes are bounded, the genomes are, nothing survives that did not
\* live, and the champions are the best of what was seen.
TournamentTypeOK ==
    /\ population \in Seq(Genomes)
    /\ survivors \in Seq(Genomes)
    /\ pc \in {"breed", "done"} => Range(survivors) \subseteq Range(population)
    /\ gen \in 0 .. Generations - 1
    /\ best \subseteq Genomes
    /\ champions \subseteq best
    /\ \A f \in Families : Cardinality({g \in champions : g.family = f}) <= 1
    /\ finalists \in Seq(best) /\ Len(finalists) <= Want + 1
    /\ pc \in {"evaluate", "select", "breed", "done"}

-----------------------------------------------------------------------------
\* Random draws of any family, until the population of n is full.
Filler(n) == [1 .. (IF n < Population THEN Population - n ELSE 0) -> Genomes]

\* seedPopulation(): every family at its defaults, some random draws of each,
\* and more of any family until the population is full.
TournamentInit ==
    /\ \E seeds \in [1 .. NumFamilies * (1 + SeedsPerFamily) -> Genomes] :
          /\ \A i \in DOMAIN seeds :
                IF i <= NumFamilies THEN seeds[i].family = i
                ELSE seeds[i].family = ((i - NumFamilies - 1) \div SeedsPerFamily) + 1
          /\ \E rest \in Filler(Len(seeds)) : population = seeds \o rest
    /\ survivors = <<>>
    /\ gen = 0
    /\ best = {}
    /\ champions = {}
    /\ finalists = <<>>
    /\ pc = "evaluate"

\* The genomes of s, each as often as s has it, by score.
Rankings(s) ==
    {q \in [DOMAIN s -> Range(s)] :
        /\ Ranked(q)
        /\ \A g \in Range(s) : Cardinality({i \in DOMAIN q : q[i] = g})
                               = Cardinality({i \in DOMAIN s : s[i] = g})}

\* evaluatePopulation() and the sort by fitness; equal scores in any order.
Evaluate ==
    /\ pc = "evaluate"
    /\ population' \in Rankings(population)
    /\ pc' = "select"
    /\ UNCHANGED <<survivors, gen, best, champions, finalists>>

-----------------------------------------------------------------------------
\* Mistake: X decides from the start, as in the first version of the command.
SurvivingByThreshold ==
    Picked(population, {i \in DOMAIN population : population[i].score >= Threshold})

\* Who survives: the top of each family while tuning, those at X afterwards.
Surviving ==
    Picked(population, {i \in DOMAIN population :
        IF gen < TuneGenerations THEN RankInFamily(population, i) <= TuneKeepPerFamily
                                 ELSE population[i].score >= Threshold})

\* Mistake: only those that survive are remembered.
RememberedSurvivors == best \union {g \in Range(population) : g.score >= Threshold}

\* rememberBest(), for the whole population.
Remembered == best \union Range(population)

\* The champions after this population: a later genome must be strictly better.
Crowned ==
    LET seen == champions \union Range(population)
        Beaten(g) == \E h \in seen : h.family = g.family /\ h.score > g.score
    IN  {g \in seen : ~Beaten(g)}

\* The search is over: the best genome of each structure, as many as wanted,
\* and the best control whether or not it made the table.
Finalists(genomes) ==
    LET tops == {g \in genomes : \A h \in genomes : h.family = g.family => h.score <= g.score}
        controls == {g \in tops : g.family \in Controls}
        WithControl(s) ==
            IF \E i \in DOMAIN s : s[i].family \in Controls THEN {s}
            ELSE {Append(s, c) : c \in {d \in controls : \A e \in controls : e.score <= d.score}}
        tables == {SubSeq(s, 1, Min({Want, Len(s)})) : s \in {t \in SetToSeqs(tops) : Ranked(t)}}
    IN  IF controls = {} THEN tables ELSE UNION {WithControl(s) : s \in tables}

\* The end of an iteration up to breed(): survivors, history, champions; after
\* the last generation the finalists.
Select ==
    /\ pc = "select"
    /\ survivors' = Surviving
    /\ best' = Remembered
    /\ champions' = Crowned
    /\ IF gen + 1 >= Generations
       THEN pc' = "done" /\ finalists' \in Finalists(best')
       ELSE pc' = "breed" /\ UNCHANGED finalists
    /\ UNCHANGED <<population, gen>>

-----------------------------------------------------------------------------
\* The elites: a few of each family, or simply the first.
Elites ==
    LET top == {i \in DOMAIN survivors : RankInFamily(survivors, i) <= EliteKeepPerFamily}
    IN  IF Speciate
        THEN Picked(survivors, {i \in top : Cardinality({j \in top : j <= i}) <= EliteKeep * 3})
        ELSE Picked(survivors, {i \in DOMAIN survivors : i <= EliteKeep})

Slots == Population - Len(Elites) - Immigrants

\* The families of the offspring: in turn over the surviving families, or any.
ParentFamilies ==
    LET families == {g.family : g \in Range(survivors)}
        Turn(k) == Nth(families, ((k - 1) % Cardinality(families)) + 1)
    IN  IF Speciate THEN {[k \in 1 .. Slots |-> Turn(k)]}
                    ELSE [1 .. Slots -> families]

\* Offspring of these families, whatever their scores turn out to be.
Offspring ==
    IF survivors = <<>> \/ Slots <= 0 THEN {<<>>}
    ELSE {[k \in 1 .. Slots |-> [family |-> families[k], score |-> scores[k]]] :
              families \in ParentFamilies, scores \in [1 .. Slots -> Scores]}

\* breed(): elites, offspring, and immigrants until the population is full.
Breed ==
    /\ pc = "breed"
    /\ \E children \in Offspring : \E rest \in Filler(Len(Elites \o children)) :
          population' = Elites \o children \o rest
    /\ gen' = gen + 1
    /\ pc' = "evaluate"
    /\ UNCHANGED <<survivors, best, champions, finalists>>

Done == pc = "done" /\ UNCHANGED tournamentVars

TournamentNext == Evaluate \/ Select \/ Breed \/ Done

TournamentSpec == TournamentInit /\ [][TournamentNext]_tournamentVars

-----------------------------------------------------------------------------
TopScore(s) == Max({g.score : g \in Range(s)})

\* "Every family keeps its own best few and breeds them. Every idea gets the
\* same budget to be adapted." (docs/TOURNAMENT.md:83-85): in every generation
\* of the tuning phase every family ever seen breeds, and the numbers of
\* offspring of two families differ by one at most.
TuningIsFair ==
    [][pc = "breed" /\ gen < TuneGenerations =>
        LET born == SubSeq(population', Len(Elites) + 1, Len(Elites) + Slots)
            OfFamily(f) == Cardinality({i \in DOMAIN born : born[i].family = f})
            seen == {g.family : g \in best}
        IN  \A f, h \in seen : OfFamily(f) >= 1 /\ OfFamily(h) <= OfFamily(f) + 1]_tournamentVars

\* "Elites carry over unchanged, so a generation can never be worse than the
\* one before it." (tournament.h:678-679)
NeverWorse == [][pc = "breed" => TopScore(population') >= TopScore(population)]_tournamentVars

\* "Survivors replicate, everything else is discarded." (docs/TOURNAMENT.md:86):
\* when somebody survives, somebody breeds.
SurvivorsReplicate == [][pc = "breed" /\ survivors # <<>> => Slots > 0]_tournamentVars

\* "a strong individual that appears in generation 2 and is later crowded out
\* is still a finalist" (tournament.h:431-432): no family champion of the run beats
\* the first finalist, although the two are kept in maps of their own.
NobodyIsForgotten ==
    pc = "done" => /\ finalists # <<>>
                   /\ \A g \in champions : g.score <= finalists[1].score

\* The empirical null is on the table: the best control that was ever evaluated
\* is among the finalists, whatever it scored.
NullIsShown ==
    pc = "done" =>
        \A g \in champions : g.family \in Controls =>
            \E i \in DOMAIN finalists :
                finalists[i].family \in Controls /\ g.score <= finalists[i].score
=============================================================================
