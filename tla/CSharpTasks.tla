----------------------------- MODULE CSharpTasks -----------------------------
(* The tasks of OpenStaticAnalyzerCSharp and the data they share. *)
EXTENDS TaskTables

(* The program as built for Windows: under __unix__ the parsing of the profile,
   FxCop2GraphTask and the dependency on it are compiled out. *)

\* The analyser runs FxCop and the Roslyn analyzers itself.
SolutionAnalysisTask == Entry({}, {}, {}, {"lim", "lcssi", "FxCop.xml", "Roslyn.csv"})

ProfileTask == Entry({}, {}, {}, ToolOptions \cup {"FxCop.rul"})

FxCop2GraphTask ==
    Entry({"SolutionAnalysisTask", "ProfileTask"},
          {"FxCop.xml", "lim", "FxCop.rul"}, {}, {"FxCop.graph"})

Lim2metricsTask == Entry({"SolutionAnalysisTask"}, {"lim"}, {}, {"metrics.graph"})

DcfTask == Entry({"SolutionAnalysisTask"}, {"lcssi", "lim"}, {"gsi"}, {"DCF.graph", "gsi"})

GraphMergeTask ==
    Entry({"FxCop2GraphTask", "Lim2metricsTask", "DcfTask", "Sonar2GraphTask",
           "Roslyn2GraphTask"},
          {}, {"FxCop.graph", "metrics.graph", "DCF.graph", "Sonar.graph", "Roslyn.graph"},
          {"graph", "summary"})

\* Slip: the last tool that rewrites the graph is not waited for.
GraphDumpTaskEarly ==
    Entry({"GraphMergeTask", "MetricHunterTask", "UserDefinedMetricsTask", "Roslyn2GraphTask"},
          {"graph", "summary"}, {}, {})

GraphDumpTask ==
    Entry({"GraphMergeTask", "MetricHunterTask", "UserDefinedMetricsTask", "LIM2PatternsTask",
           "Roslyn2GraphTask"},
          {"graph", "summary"}, {}, {})

CleanResultsTask == Cleaner({}, {"gsi"})

MetricHunterTask ==
    Entry({"GraphMergeTask"}, {"graph", "MetricHunter.threshold"}, {}, {"graph"})

UserDefinedMetricsTask ==
    Entry({"GraphMergeTask", "MetricHunterTask"}, {"graph"}, {"props.runUDM", "UDM.rul"}, {"graph"})

Sonar2GraphTask == Entry({"SolutionAnalysisTask"}, {"lim"}, {}, {"Sonar.graph"})

LIM2PatternsTask ==
    Entry({"GraphMergeTask", "MetricHunterTask", "UserDefinedMetricsTask"},
          {"graph", "lim"}, {"props.patterns"}, {"graph"})

Roslyn2GraphTask == Entry({"SolutionAnalysisTask"}, {"lim", "Roslyn.csv"}, {}, {"Roslyn.graph"})

CSharpPipeline ==
    [SolutionAnalysisTask |-> SolutionAnalysisTask,
     ProfileTask |-> ProfileTask,
     FxCop2GraphTask |-> FxCop2GraphTask,
     Lim2metricsTask |-> Lim2metricsTask,
     DcfTask |-> DcfTask,
     GraphMergeTask |-> GraphMergeTask,
     GraphDumpTask |-> GraphDumpTask,
     CleanResultsTask |-> CleanResultsTask,
     MetricHunterTask |-> MetricHunterTask,
     UserDefinedMetricsTask |-> UserDefinedMetricsTask,
     Sonar2GraphTask |-> Sonar2GraphTask,
     LIM2PatternsTask |-> LIM2PatternsTask,
     Roslyn2GraphTask |-> Roslyn2GraphTask]

CSharpTools == {"FxCop2GraphTask", "Lim2metricsTask", "DcfTask", "MetricHunterTask",
                "LIM2PatternsTask", "Roslyn2GraphTask", "Sonar2GraphTask"}

\* runAnalyzeMode
CSharpProgram ==
    [tasks |-> CSharpPipeline,
     always |-> {"SolutionAnalysisTask", "ProfileTask", "GraphMergeTask", "GraphDumpTask"}]

=============================================================================
