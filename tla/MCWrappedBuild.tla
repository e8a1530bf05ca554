--------------------------- MODULE MCWrappedBuild ---------------------------
(* Builds of up to three calls, of which one may start another one. *)
EXTENDS WrappedBuild

\* Call 1 compiles; call 2 compiles and links, by starting the linker (call 3);
\* call 4 links what call 1 has compiled, through the compiler; call 5 archives it;
\* call 6 links an object that is there already; call 7 is another compilation.
MCCall == 1 .. 7
MCNoCall == 0

MCParent == [c \in MCCall |-> IF c = 3 THEN 2 ELSE MCNoCall]

MCJobs == <<{"compile"}, {"compile", "link"}, {"link"}, {"link"}, {"archive"}, {"link"}, {"compile"}>>

\* Calls 1 and 7 use one compiler, calls 2 and 4 another one.
MCDriver == {1, 2, 4, 7}
MCCompiler == [c \in MCCall |-> IF c \in {1, 7} THEN "cc" ELSE "c++"]

MCInputsOf == <<{}, {}, {3}, {1}, {1}, {6}, {}>>

Usual == [runOrig |-> TRUE, first |-> FALSE, always |-> FALSE, pretend |-> FALSE,
          wanted |-> TRUE, causesError |-> FALSE, disabled |-> FALSE]

Unusual == {[Usual EXCEPT !.always = TRUE, !.causesError = TRUE],
            [Usual EXCEPT !.first = TRUE],
            [Usual EXCEPT !.pretend = TRUE],
            [Usual EXCEPT !.runOrig = FALSE],
            [Usual EXCEPT !.wanted = FALSE],
            [Usual EXCEPT !.disabled = TRUE]}

MCUsualBuilds == [calls : {{1, 2, 3}}, setting : {Usual}]

MCSettings == {Usual} \cup Unusual

MCBuilds == [calls : {{1, 2, 3}, {1, 7}, {1, 4, 5}, {4, 6}, {5, 6}}, setting : {Usual}]
                \cup [calls : {{2, 3}}, setting : Unusual]

=============================================================================
