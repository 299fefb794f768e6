--------------------------- MODULE MCPdfWorkflow ---------------------------
EXTENDS PdfWorkflow

CONSTANTS i1, j1, j2, w1, w2, idle, unused
=============================================================================
