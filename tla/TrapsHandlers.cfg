\* A line of each mode, delegated or not, nested handlers.
SPECIFICATION Spec
CONSTANTS
    Lines = {"MTI", "SEI"}
    Irqs = {1}
    None = None
INVARIANTS ContextsKept HandlersMasked
PROPERTY ReturnResumes
