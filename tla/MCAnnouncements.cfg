SPECIFICATION Spec
CONSTANTS
  u1 = u1
  u2 = u2
  Subidas = {u1, u2}
  TituloDe <- MCTitulo
  SeccionDe <- MCSeccion
  EnlaceDe <- MCEnlace
  MaxRecientes = 0
  Prefijo <- MCPrefijo
  Formas <- MCFormas
  Pares = "[S/L]"
  TituloCanal = "canal"
  Nada = Nada
  MaxItems = 2
  Canales = {"#a", "#b"}
  Privado = "yo"
  Lineas <- MCLineas
  Bot = "bot"
  Ninguna = Ninguna
  Digitos = {"7"}
  MaxLlegadas = 2
INVARIANTS TypeOK  SeccionDeSuDoc 
CHECK_DEADLOCK FALSE
PROPERTIES IrcFiel VuelveAlCanal
