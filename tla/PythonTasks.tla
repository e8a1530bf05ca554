----------------------------- MODULE PythonTasks -----------------------------
(* The tasks of OpenStaticAnalyzerPython and the data they share. *)
EXTENDS TaskTables

PANTask == Entry({}, {}, {}, {"psi"})

PAN2LimTask == Entry({"PANTask"}, {"psi"}, {}, {"lim"})

LIM2MetricsTask == Entry({"PANTask", "PAN2LimTask"}, {"lim"}, {}, {"metrics.graph"})

DcfTask == Entry({"PANTask", "PAN2LimTask"}, {"psi", "lim"}, {"gsi"}, {"DCF.graph", "gsi"})

PylintTask == Entry({}, {}, {}, {"Pylint.txt"})

\* Slip: the rule file is taken for granted.
Pylint2GraphTaskAtOnce ==
    Entry({"PAN2LimTask", "PylintTask"},
          {"Pylint.txt", "lim", "Pylint.rul"}, {}, {"Pylint.graph"})

Pylint2GraphTask ==
    Entry({"PAN2LimTask", "PylintTask", "ProfileTask"},
          {"Pylint.txt", "lim", "Pylint.rul"}, {}, {"Pylint.graph"})

\* Every file of graphDir is merged.
GraphMergeTask ==
    Entry({"PANTask", "LIM2MetricsTask", "DcfTask", "Pylint2GraphTask", "Sonar2GraphTask"},
          {}, {"metrics.graph", "DCF.graph", "Pylint.graph", "Sonar.graph"}, {"graph", "summary"})

MetricHunterTask ==
    Entry({"GraphMergeTask"}, {"graph", "MetricHunter.threshold"}, {}, {"graph"})

GraphDumpTask ==
    Entry({"GraphMergeTask", "MetricHunterTask", "UserDefinedMetricsTask", "LIM2PatternsTask"},
          {"graph", "summary"}, {}, {})

CleanResultsTask == Cleaner({}, {"gsi"})

ProfileTask == Entry({"PAN2LimTask"}, {}, {}, ToolOptions \cup {"Pylint.rul"})

UserDefinedMetricsTask ==
    Entry({"GraphMergeTask", "MetricHunterTask"}, {"graph"}, {"props.runUDM", "UDM.rul"}, {"graph"})

Sonar2GraphTask == Entry({"PAN2LimTask"}, {"lim"}, {}, {"Sonar.graph"})

LIM2PatternsTask ==
    Entry({"GraphMergeTask", "MetricHunterTask", "UserDefinedMetricsTask"},
          {"graph", "lim"}, {"props.patterns"}, {"graph"})

PythonPipeline ==
    [PANTask |-> PANTask,
     PAN2LimTask |-> PAN2LimTask,
     LIM2MetricsTask |-> LIM2MetricsTask,
     DcfTask |-> DcfTask,
     PylintTask |-> PylintTask,
     Pylint2GraphTask |-> Pylint2GraphTask,
     GraphMergeTask |-> GraphMergeTask,
     MetricHunterTask |-> MetricHunterTask,
     GraphDumpTask |-> GraphDumpTask,
     CleanResultsTask |-> CleanResultsTask,
     ProfileTask |-> ProfileTask,
     UserDefinedMetricsTask |-> UserDefinedMetricsTask,
     Sonar2GraphTask |-> Sonar2GraphTask,
     LIM2PatternsTask |-> LIM2PatternsTask]

\* -runPylint switches on two tasks.
Pylint == {"PylintTask", "Pylint2GraphTask"}

PythonTools == Pylint \cup {"LIM2MetricsTask", "DcfTask", "MetricHunterTask", "LIM2PatternsTask",
                            "Sonar2GraphTask"}

\* runAnalyzeMode
PythonProgram ==
    [tasks |-> PythonPipeline,
     always |-> {"PANTask", "PAN2LimTask", "ProfileTask", "GraphMergeTask", "GraphDumpTask"}]

=============================================================================
