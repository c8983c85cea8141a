------------------------ MODULE MCExtensionServices ------------------------
EXTENDS ExtensionServices
============================================================================
