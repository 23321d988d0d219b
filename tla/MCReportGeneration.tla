-------------------------- MODULE MCReportGeneration --------------------------
EXTENDS ReportGeneration
CONSTANTS j1, j2, g1, d1
=============================================================================
