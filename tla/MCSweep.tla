------------------------------ MODULE MCSweep ------------------------------
(***************************************************************************)
(* The shapes of the engine's own fixtures: a node behind one gate and one *)
(* beside it, behind two gates, a series buffered and sampled under two    *)
(* spellings, a fold behind nothing, an anchored node and its retention, a *)
(* latch with an episode, a level its readers' latch may darken, a clock;  *)
(* and the wirings graph! turns away.                                      *)
(***************************************************************************)
EXTENDS Shape

Level(deps) == [emit |-> FALSE, latch |-> FALSE, anchored |-> FALSE,
                clock |-> 0, cut |-> "", deps |-> deps]
Run(deps) == [Level(deps) EXCEPT !.emit = TRUE]
Anchored(deps) == [Level(deps) EXCEPT !.anchored = TRUE]
LatchOf(cut, deps) == [Level(deps) EXCEPT !.latch = TRUE, !.cut = cut]
ClockedTo(p, deps) == [Run(deps) EXCEPT !.clock = p]

Plain(c) == [cell |-> c, as |-> "plain"]
GateOn(c) == [cell |-> c, as |-> "gate"]
Fold(c) == [cell |-> c, as |-> "fold"]
Buf(c) == [cell |-> c, as |-> "buf"]
Sample(c) == [cell |-> c, as |-> "sample"]

Graph(roots, outputs, node, alias, rewinds) ==
    [roots |-> roots, outputs |-> outputs, node |-> node, rewinds |-> rewinds,
     is |-> [c \in roots \cup DOMAIN node \cup DOMAIN alias |->
                IF c \in DOMAIN alias THEN alias[c] ELSE c]]
NoAlias == [c \in {} |-> ""]

OneGate == Graph({"src", "sw"}, <<"Hot", "Sink", "Watch">>,
    [Hot |-> Level(<<Plain("sw")>>), Counted |-> Run(<<Plain("src")>>),
     Kept |-> Run(<<Plain("src")>>), Watch |-> Level(<<Buf("Kept")>>),
     Sink |-> Level(<<GateOn("Hot"), Plain("Counted"), Plain("Kept")>>)], NoAlias, TRUE)

\* Two readers behind two gates, one of them behind both.
TwoGates == Graph({"src", "a", "b"}, <<"A", "B", "Left", "Right">>,
    [A |-> Level(<<Plain("a")>>), B |-> Level(<<Plain("b")>>),
     Feed |-> Run(<<Plain("src")>>), Mid |-> Run(<<GateOn("A"), Plain("Feed")>>),
     Left |-> Level(<<GateOn("B"), Plain("Mid")>>),
     Right |-> Level(<<GateOn("A"), GateOn("B"), Plain("Feed")>>)], NoAlias, TRUE)

\* The gate is stepped after the node it would suppress.
LateGate == Graph({"src", "a", "sw"}, <<"First", "Sink">>,
    [A |-> Level(<<Plain("a")>>), Feed |-> Run(<<Plain("src")>>),
     First |-> Level(<<GateOn("A"), Plain("Feed")>>), Hot |-> Level(<<Plain("sw")>>),
     Sink |-> Level(<<GateOn("Hot"), Plain("Feed")>>)], NoAlias, TRUE)

\* One series retained under two spellings, and sampled.
Spellings == Graph({"src"}, <<"X", "Y">>,
    [Feed |-> Run(<<Plain("src")>>),
     X |-> Level(<<Buf("Alias"), Sample("Alias")>>),
     Y |-> Level(<<Buf("Feed"), Plain("Alias"), Sample("Feed")>>)],
    [Alias |-> "Feed"], TRUE)

\* A book behind a gate: it and its retention sleep where the past rewinds.
Book(rewinds) == Graph({"rows", "sw"}, <<"Mid">>,
    [Hot |-> Level(<<Plain("sw")>>), Book |-> Anchored(<<Buf("rows")>>),
     Mid |-> Level(<<GateOn("Hot"), Plain("Book")>>)], NoAlias, rewinds)

\* An episode the trigger arms, one leg beside it, one level the latch darkens.
Episode == Graph({"trig", "src"}, <<"Leg", "Own">>,
    [Sum |-> Level(<<Fold("src")>>), Kept |-> Level(<<Plain("Sum")>>),
     Armed |-> LatchOf("Own", <<Fold("trig")>>),
     Own |-> Level(<<GateOn("Armed"), Plain("src")>>),
     Leg |-> Level(<<GateOn("Armed"), Plain("Kept"), Plain("src")>>)], NoAlias, TRUE)

\* A flow behind a latch, which may not darken it.
Flow == Graph({"trig", "src"}, <<"Own">>,
    [Feed |-> Run(<<Plain("src")>>), Armed |-> LatchOf("Own", <<Plain("trig")>>),
     Own |-> Run(<<GateOn("Armed"), Plain("Feed")>>)], NoAlias, TRUE)

\* A clocked node on what the engine keeps, behind a reader's gate.
Clocks == Graph({"src", "sw"}, <<"Sink">>,
    [Hot |-> Level(<<Plain("sw")>>), Minutely |-> ClockedTo(2, <<Buf("src")>>),
     Sink |-> Level(<<GateOn("Hot"), Plain("Minutely")>>)], NoAlias, TRUE)

Cyclic == Graph({"src"}, <<"X">>,
    [X |-> Level(<<Plain("src"), Buf("Y")>>), Y |-> Run(<<Plain("X")>>)], NoAlias, TRUE)

\* A series sampled by what it reads.
SampledCycle == Graph({"src"}, <<"Y">>,
    [Y |-> Level(<<Plain("X")>>), X |-> Level(<<Plain("src"), Sample("Y")>>)], NoAlias, TRUE)

GatedFold == Graph({"src", "sw"}, <<"Sum">>,
    [Hot |-> Level(<<Plain("sw")>>), Sum |-> Level(<<GateOn("Hot"), Fold("src")>>)],
    NoAlias, TRUE)

GatesItsArm == Graph({"src"}, <<"Own">>,
    [Arm |-> Run(<<GateOn("Armed"), Plain("src")>>), Armed |-> LatchOf("Own", <<Fold("Arm")>>),
     Own |-> Level(<<GateOn("Armed"), Plain("src")>>)], NoAlias, TRUE)

MCGraphs == {OneGate, TwoGates, LateGate, Spellings, Book(TRUE), Book(FALSE),
             Episode, Flow, Clocks, Cyclic, SampledCycle, GatedFold, GatesItsArm}

=============================================================================
