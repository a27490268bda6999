-------------------------- MODULE MCBufferedExporter --------------------------
\* The threads of BufferedExporter as model values.
EXTENDS BufferedExporter

CONSTANTS p1, p2, f1, w

=============================================================================
