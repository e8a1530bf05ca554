--------------------------- MODULE JavaScriptTasks ---------------------------
(* The tasks of OpenStaticAnalyzerJavaScript and the data they share. *)
EXTENDS TaskTables

CleanResultsTask == Cleaner({}, {"gsi"})

\* It removes the directories named .columbus_javascript, which hold none of
\* the files that tasks share.
CleanProjectTask == Cleaner({"JSAN2LimTask", "GraphDumpTask"}, {})

\* Slip: the analysis does not wait for the cleaning.
JSANTaskAtOnce == Entry({}, {}, {}, {"jssi"})

JSANTask == Entry({"CleanResultsTask"}, {}, {}, {"jssi"})

\* Declared, but runAnalyzeMode registers it never.
JSAN2ChangePathTask == Entry({"JSANTask"}, {"jssi"}, {}, {"jssi"})

RunESLintTask == Entry({"JSANTask", "ProfileTask"}, {}, {"ESLint.rul"}, {"ESLint.xml"})

JSAN2LimTask == Entry({"JSANTask", "JSAN2ChangePathTask"}, {"jssi"}, {}, {"lim"})

ESLint2GraphTask ==
    Entry({"RunESLintTask", "JSAN2LimTask", "ProfileTask"},
          {"lim", "ESLint.rul", "ESLint.xml"}, {}, {"ESLint.graph"})

LIM2MetricsTask == Entry({"JSANTask", "JSAN2LimTask"}, {"lim"}, {}, {"metrics.graph"})

DcfTask == Entry({"JSAN2LimTask"}, {"jssi", "lim"}, {"gsi"}, {"DCF.graph", "gsi"})

Sonar2GraphTask == Entry({"JSAN2LimTask"}, {"lim"}, {}, {"Sonar.graph"})

GraphMergeTask ==
    Entry({"JSANTask", "ESLint2GraphTask", "LIM2MetricsTask", "DcfTask", "Sonar2GraphTask"},
          {}, {"ESLint.graph", "metrics.graph", "DCF.graph", "Sonar.graph"}, {"graph", "summary"})

\* UserDefinedMetricsTask is not among the dependencies.
GraphDumpTask ==
    Entry({"GraphMergeTask", "MetricHunterTask", "LIM2PatternsTask"}, {"graph", "summary"}, {}, {})

MetricHunterTask ==
    Entry({"GraphMergeTask"}, {"graph", "MetricHunter.threshold"}, {}, {"graph"})

ProfileTask == Entry({"JSAN2LimTask"}, {}, {}, ToolOptions \cup {"ESLint.rul"})

UserDefinedMetricsTask ==
    Entry({"GraphMergeTask", "MetricHunterTask"}, {"graph"}, {"props.runUDM", "UDM.rul"}, {"graph"})

\* Slip: the last two tools rewrite the graph side by side.
LIM2PatternsTaskBeside ==
    Entry({"GraphMergeTask", "MetricHunterTask"}, {"graph", "lim"}, {"props.patterns"}, {"graph"})

LIM2PatternsTask ==
    Entry({"GraphMergeTask", "MetricHunterTask", "UserDefinedMetricsTask"},
          {"graph", "lim"}, {"props.patterns"}, {"graph"})

JavaScriptPipeline ==
    [CleanResultsTask |-> CleanResultsTask,
     CleanProjectTask |-> CleanProjectTask,
     JSANTask |-> JSANTask,
     JSAN2ChangePathTask |-> JSAN2ChangePathTask,
     RunESLintTask |-> RunESLintTask,
     JSAN2LimTask |-> JSAN2LimTask,
     ESLint2GraphTask |-> ESLint2GraphTask,
     LIM2MetricsTask |-> LIM2MetricsTask,
     DcfTask |-> DcfTask,
     Sonar2GraphTask |-> Sonar2GraphTask,
     GraphMergeTask |-> GraphMergeTask,
     GraphDumpTask |-> GraphDumpTask,
     MetricHunterTask |-> MetricHunterTask,
     ProfileTask |-> ProfileTask,
     UserDefinedMetricsTask |-> UserDefinedMetricsTask,
     LIM2PatternsTask |-> LIM2PatternsTask]

\* -runESLint switches on two tasks.
ESLint == {"RunESLintTask", "ESLint2GraphTask"}

JavaScriptTools == ESLint \cup {"LIM2MetricsTask", "DcfTask", "MetricHunterTask",
                                "LIM2PatternsTask", "CleanProjectTask", "Sonar2GraphTask"}

\* runAnalyzeMode
JavaScriptProgram ==
    [tasks |-> JavaScriptPipeline,
     always |-> {"JSANTask", "JSAN2LimTask", "ProfileTask", "GraphMergeTask", "GraphDumpTask"}]

=============================================================================
