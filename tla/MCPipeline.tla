----------------------------- MODULE MCPipeline -----------------------------
(* The four programs, with command lines and profiles to check them with. *)
EXTENDS TaskOrder

Java == INSTANCE JavaTasks
JavaScript == INSTANCE JavaScriptTasks
Python == INSTANCE PythonTasks
CSharp == INSTANCE CSharpTasks

AllPrograms == [java |-> Java!JavaProgram,
                javascript |-> JavaScript!JavaScriptProgram,
                python |-> Python!PythonProgram,
                csharp |-> CSharp!CSharpProgram]

AllTasks == UNION {DOMAIN AllPrograms[p].tasks : p \in DOMAIN AllPrograms}

\* -runUDM given or not, a profile with metrics or without.  Whether
\* -cloneGenealogy is given matters to GenealogyKept only: it is.
Choices(program, toolSets, cleanings) ==
    {o \in [program : {program}, tools : toolSets, cleanResults : cleanings,
            cloneGenealogy : {TRUE}, runUDMExplicit : BOOLEAN, runUDM : BOOLEAN,
            profileHasUDM : BOOLEAN] :
        ~ o.runUDMExplicit => ~ o.runUDM}

\* Next to the tools of "base", any of those that rewrite the merged graph.
WithRewriters(base) == {base \cup S : S \in SUBSET {"MetricHunterTask", "LIM2PatternsTask"}}

\* Some and all of the tools of each program, among them one that waits for the
\* profile; LIM2Patterns for JavaScript; -cleanResults:0 for Java and JavaScript.
Usual ==
    Choices("java", WithRewriters({"PMD2GraphTask", "DcfTask"}), {-1, 0})
        \cup Choices("java", {Java!JavaTools}, {0, 1})
        \cup Choices("javascript", {JavaScript!ESLint \cup {"DcfTask", "LIM2PatternsTask"}},
                     {-1, 0})
        \cup Choices("javascript", {JavaScript!JavaScriptTools}, {0, 1})
        \cup Choices("python", WithRewriters(Python!Pylint \cup {"DcfTask"}), {-1, 1})
        \cup Choices("python", {Python!PythonTools}, {-1, 1})
        \cup Choices("csharp", WithRewriters({"FxCop2GraphTask", "DcfTask", "Roslyn2GraphTask"}),
                     {-1, 1})
        \cup Choices("csharp", {CSharp!CSharpTools}, {-1, 1})

\* Java with neither PMD nor FindBugs.
WithoutRules == Choices("java", {{"Lim2metricsTask", "LIM2PatternsTask"}}, {-1})

\* Python and C# with -cleanResults:0.
WithCleaning == Choices("python", {Python!PythonTools}, {0})
                    \cup Choices("csharp", {CSharp!CSharpTools}, {0})

-----------------------------------------------------------------------------
(* The tables under every command line that the programs work with. *)

\* Every value of the switches; each of "parts" is a tool, or tools that come
\* together, that may be there or not.
CommandLines(program, parts) ==
    {o \in [program : {program}, tools : {UNION S : S \in SUBSET parts},
            cleanResults : {-1, 0, 1}, cloneGenealogy : BOOLEAN, runUDMExplicit : BOOLEAN,
            runUDM : BOOLEAN, profileHasUDM : BOOLEAN] :
        ~ o.runUDMExplicit => ~ o.runUDM}

Singly(tools) == {{t} : t \in tools}

EveryCommandLine ==
    LET js == JavaScript!ESLint
        py == Python!Pylint
    IN  CommandLines("java", Singly(Java!JavaTools))
            \cup CommandLines("javascript", {js} \cup Singly(JavaScript!JavaScriptTools \ js))
            \cup CommandLines("python", {py} \cup Singly(Python!PythonTools \ py))
            \cup CommandLines("csharp", Singly(CSharp!CSharpTools))

\* UserDefinedMetricsTask may run.
UDMIsOn(o) == ~ o.runUDMExplicit \/ o.runUDM

\* A rule checker waits for the profile; the rewriters of the merged graph wait
\* for it by way of the rule checker only.
RuleCheckers == {"PMD2GraphTask", "FindBugsTask", "FxCop2GraphTask"}
                    \cup JavaScript!ESLint \cup Python!Pylint
ProfileAwaited(o) ==
    (UDMIsOn(o) \/ o.tools \cap {"MetricHunterTask", "LIM2PatternsTask"} # {})
        => o.tools \cap RuleCheckers # {}

\* In JavaScript the user defined metrics are dumped by way of LIM2Patterns.
MetricsPassedOn(o) ==
    (o.program = "javascript" /\ UDMIsOn(o)) => "LIM2PatternsTask" \in o.tools

\* In Python and C# nothing waits for the cleaning task.
CleaningAwaited(o) ==
    (o.program \in {"python", "csharp"} /\ "DcfTask" \in o.tools /\ o.cloneGenealogy)
        => o.cleanResults # 0

OrderedCommandLines ==
    {o \in EveryCommandLine : ProfileAwaited(o) /\ MetricsPassedOn(o) /\ CleaningAwaited(o)}

\* A table is the same in every state of a run, so it is judged in the first one.
TablesOrdered == (\A t \in registered : status[t] = "waiting") => TableOrdered

\* Of these command lines the usual ones are run.
Explored == options \in Usual

=============================================================================
