------------------------------ MODULE JavaTasks ------------------------------
(* The tasks of OpenStaticAnalyzerJava and the data they share. *)
EXTENDS TaskTables

CleanResultsTask == Cleaner({}, {"gsi"})

CleanProjectTask == Cleaner({"JAN2limTask", "GraphDumpTask"}, {"ljsi"})

DirectoryBasedAnalysisTask == Entry({"CleanResultsTask"}, {}, {}, {"ljsi", "PMD.xml"})

JANFilterTask == Entry({"DirectoryBasedAnalysisTask"}, {"ljsi"}, {}, {"filter"})

JAN2limTask == Entry({"JANFilterTask"}, {"ljsi"}, {"filter"}, {"lim"})

PMD2GraphTask ==
    Entry({"JAN2limTask", "ProfileTask"}, {"PMD.xml", "lim", "PMD.rul"}, {}, {"PMD.graph"})

FindBugsTask ==
    Entry({"JAN2limTask", "ProfileTask"}, {"lim", "FindBugs.rul"}, {}, {"FindBugs.graph"})

Lim2metricsTask == Entry({"JAN2limTask"}, {"lim"}, {}, {"metrics.graph"})

\* Slip: clones are looked for as soon as there are trees to compare.
DcfTaskEarly ==
    Entry({"JANFilterTask"}, {"ljsi", "filter", "lim"}, {"gsi"}, {"DCF.graph", "gsi"})

DcfTask == Entry({"JAN2limTask"}, {"ljsi", "filter", "lim"}, {"gsi"}, {"DCF.graph", "gsi"})

Sonar2GraphTask == Entry({"JAN2limTask"}, {"lim"}, {}, {"Sonar.graph"})

\* directory_iterator over graphDir: whatever graphs are there
GraphMergeTask ==
    Entry({"PMD2GraphTask", "FindBugsTask", "Lim2metricsTask", "DcfTask", "Sonar2GraphTask"},
          {}, {"PMD.graph", "FindBugs.graph", "metrics.graph", "DCF.graph", "Sonar.graph"},
          {"graph", "summary"})

GraphDumpTask ==
    Entry({"GraphMergeTask", "MetricHunterTask", "UserDefinedMetricsTask", "LIM2PatternsTask"},
          {"graph", "summary"}, {}, {})

MetricHunterTask ==
    Entry({"GraphMergeTask"}, {"graph", "MetricHunter.threshold"}, {}, {"graph"})

ProfileTask == Entry({"JAN2limTask"}, {}, {}, ToolOptions \cup {"PMD.rul", "FindBugs.rul"})

UserDefinedMetricsTask ==
    Entry({"GraphMergeTask", "MetricHunterTask"}, {"graph"}, {"props.runUDM", "UDM.rul"}, {"graph"})

LIM2PatternsTask ==
    Entry({"GraphMergeTask", "MetricHunterTask", "UserDefinedMetricsTask"},
          {"graph", "lim"}, {"props.patterns"}, {"graph"})

JavaPipeline ==
    [CleanResultsTask |-> CleanResultsTask,
     CleanProjectTask |-> CleanProjectTask,
     DirectoryBasedAnalysisTask |-> DirectoryBasedAnalysisTask,
     JANFilterTask |-> JANFilterTask,
     JAN2limTask |-> JAN2limTask,
     PMD2GraphTask |-> PMD2GraphTask,
     FindBugsTask |-> FindBugsTask,
     Lim2metricsTask |-> Lim2metricsTask,
     DcfTask |-> DcfTask,
     Sonar2GraphTask |-> Sonar2GraphTask,
     GraphMergeTask |-> GraphMergeTask,
     GraphDumpTask |-> GraphDumpTask,
     MetricHunterTask |-> MetricHunterTask,
     ProfileTask |-> ProfileTask,
     UserDefinedMetricsTask |-> UserDefinedMetricsTask,
     LIM2PatternsTask |-> LIM2PatternsTask]

\* The tasks that options of their own switch on.
JavaTools == {"PMD2GraphTask", "FindBugsTask", "Lim2metricsTask", "DcfTask", "MetricHunterTask",
              "LIM2PatternsTask", "CleanProjectTask", "Sonar2GraphTask"}

\* runAnalyzeMode
JavaProgram ==
    [tasks |-> JavaPipeline,
     always |-> {"DirectoryBasedAnalysisTask", "JANFilterTask", "JAN2limTask", "ProfileTask",
                 "GraphMergeTask", "GraphDumpTask"}]

=============================================================================
